---- MODULE Spec2Model ----
(***************************************************************************)
(* Model of the crawl4ai-rag MCP server                                    *)
(* (src/mcp-servers/crawl4ai-rag/src/crawl4ai_mcp_server.py):              *)
(*   - smart_crawl: the query-driven paragraph relevance scorer and the    *)
(*     body of its answer;                                                 *)
(*   - extract_entities_and_relations: the knowledge-graph extractor.      *)
(* A Python str is modelled as the sequence of its characters, each        *)
(* character a one-character string.                                       *)
(***************************************************************************)
EXTENDS Integers, Sequences, FiniteSets, TLC

VARIABLES
    sc_pc,              \* smart_crawl: "idle", "fetching" (awaiting crawler.arun), "done"
    sc_query,           \* smart_crawl: the query argument
    query_terms,        \* smart_crawl: query.lower().split()
    sc_content,         \* smart_crawl: result.markdown or result.cleaned_html or ""
    scored_paragraphs,  \* smart_crawl: the list of (score, para) tuples, after the sort
    output_parts,       \* smart_crawl: the parts appended after the "---" rule
    sc_result,          \* smart_crawl: "none", "ok", "fetch_error" (Error crawling ...), "exception"
    ex_pc,              \* extract_entities_and_relations: "idle", "returned", "raised"
    ex_url,             \* extract_entities_and_relations: the url argument
    ex_title,           \* extract_entities_and_relations: the title argument
    ex_content,         \* extract_entities_and_relations: the content argument
    entities,           \* extract_entities_and_relations: the returned entity list
    relations,          \* extract_entities_and_relations: the returned relation list
    clock,              \* the time datetime.utcnow() reads
    inv_pc,             \* concurrent invocations: where each one is
    inv_args,           \* concurrent invocations: the arguments of each
    inv_entities,       \* concurrent invocations: the local list entities, by frame
    inv_relations,      \* concurrent invocations: the local list relations, by frame
    inv_todo,           \* concurrent invocations: the paragraphs the for loop has not reached, by frame
    inv_scored,         \* concurrent invocations: the local list scored_paragraphs, by frame
    inv_result,         \* concurrent invocations: the value each one returned
    inv_overlapped,     \* history: an invocation took a step while another was in progress
    GRAPH_RAG_AVAILABLE, \* the feature flag, with the driver get_neo4j_driver() gives; "unset" before the module is loaded
    graph_nodes,        \* Neo4j: the nodes, in the order they were created
    graph_edges,        \* Neo4j: the relationships, between positions of graph_nodes
    gs_calls,           \* store_in_graph_db: the number of calls made
    gs_last,            \* store_in_graph_db: the arguments and the return value of the last call
    MAX_CONCURRENT,     \* the configured ceiling, int(os.getenv("MAX_CONCURRENT", "5"))
    mp_pc,              \* crawl_multiple_pages: "unloaded", "idle", "starting", "gathering", "building", "done"
    mp_args,            \* crawl_multiple_pages: urls (their number), max_concurrent, store_in_db, store_in_graph
    mp_limit,           \* crawl_multiple_pages: max_concurrent after line 558
    semaphore,          \* crawl_multiple_pages: the permits left in asyncio.Semaphore
    task_pc,            \* crawl_with_limit, by position in urls: "waiting", "fetching", "done"
    results,            \* crawl_multiple_pages: what each task returned: "none", "success", "failed", "raised"
    mp_next,            \* crawl_multiple_pages: the position the for loop over results is at
    mp_entries,         \* crawl_multiple_pages: the entries written to output_parts
    mp_store_calls,     \* crawl_multiple_pages: the calls of store_in_vector_db / store_in_graph_db made
    mp_result,          \* crawl_multiple_pages: "none", "ok", "error" (Error in batch crawl: ...)
    mp_header,          \* crawl_multiple_pages: the counts written at the top of the output
    mp_overtaken,       \* crawl_multiple_pages: did a fetch end before the fetch of an earlier url
    sc_flags,           \* smart_crawl: the arguments store_in_db and store_in_graph
    sc_calls,           \* smart_crawl: which of the scoring loop and the two stores were run
    sp_pc,              \* crawl_single_page: "idle", "fetching", "done"
    sp_flags,           \* crawl_single_page: the arguments store_in_db and store_in_graph
    sp_calls,           \* crawl_single_page: the calls of the two stores, in order
    sp_output,          \* crawl_single_page: the parts of the returned string
    sp_result,          \* crawl_single_page: "none", "ok", "fetch_error", "fetch_raised", "store_raised"
    tool,               \* the tool the server was asked to run, "none" before the request
    tc_pc,              \* truncate_content: "idle", "returned"
    tc_content,         \* truncate_content: the argument content
    tc_max_length,      \* truncate_content: the argument max_length
    tc_result,          \* truncate_content: the string returned
    crawler,            \* _crawler: 0 for None, else the number of the AsyncWebCrawler made
    crawler_lock,       \* _crawler_lock: 0 when free, else the caller of get_crawler holding it
    gc_pc,              \* get_crawler, by caller: "idle", "waiting", "starting", "returned", "raised"
    gc_got,             \* get_crawler, by caller: the instance returned, 0 when none was
    gc_made,            \* the instances constructed so far
    gc_started,         \* the instances whose start() has completed
    gc_epoch            \* since the last shutdown: instances made, start() calls; shutdowns so far

sc_vars == <<sc_pc, sc_query, query_terms, sc_content, scored_paragraphs, output_parts, sc_result,
            sc_flags, sc_calls>>
ex_vars == <<ex_pc, ex_url, ex_title, ex_content, entities, relations>>
inv_vars == <<clock, inv_pc, inv_args, inv_entities, inv_relations, inv_todo, inv_scored,
             inv_result, inv_overlapped>>
gs_vars == <<GRAPH_RAG_AVAILABLE, graph_nodes, graph_edges, gs_calls, gs_last>>
mp_vars == <<MAX_CONCURRENT, mp_pc, mp_args, mp_limit, semaphore, task_pc, results, mp_next,
            mp_entries, mp_store_calls, mp_result, mp_header, mp_overtaken>>
sp_vars == <<sp_pc, sp_flags, sp_calls, sp_output, sp_result>>
tc_vars == <<tc_pc, tc_content, tc_max_length, tc_result>>
gc_vars == <<crawler, crawler_lock, gc_pc, gc_got, gc_made, gc_started, gc_epoch>>
vars == <<sc_vars, ex_vars, inv_vars, gs_vars, mp_vars, sp_vars, tool, tc_vars, gc_vars>>

\* what the actions of each part leave alone
sc_others == <<ex_vars, inv_vars, gs_vars, mp_vars, sp_vars, tool, tc_vars, gc_vars>>
ex_others == <<sc_vars, inv_vars, gs_vars, mp_vars, sp_vars, tool, tc_vars, gc_vars>>
inv_others == <<sc_vars, ex_vars, gs_vars, mp_vars, sp_vars, tool, tc_vars, gc_vars>>
gs_others == <<sc_vars, ex_vars, inv_vars, mp_vars, sp_vars, tool, tc_vars, gc_vars>>
mp_others == <<sc_vars, ex_vars, inv_vars, gs_vars, sp_vars, tool, tc_vars, gc_vars>>
sp_others == <<sc_vars, ex_vars, inv_vars, gs_vars, mp_vars, tool, tc_vars, gc_vars>>
tool_others == <<sc_vars, ex_vars, inv_vars, gs_vars, mp_vars, sp_vars, tc_vars, gc_vars>>
tc_others == <<sc_vars, ex_vars, inv_vars, gs_vars, mp_vars, sp_vars, tool, gc_vars>>
gc_others == <<sc_vars, ex_vars, inv_vars, gs_vars, mp_vars, sp_vars, tool, tc_vars>>

-----------------------------------------------------------------------------
(* Python str operations *)

\* a function on 1..n as the tuple TLC indexes in constant time
Tuple(f) == f \o <<>>

Chars(s) == Tuple([i \in 1..Len(s) |-> SubSeq(s, i, i)])

EmptyStr == <<>>
NL == "\n"

\* the characters str.strip() and str.split() treat as white space
Whitespace == {" ", "\t", "\n", "\r"}

UpperLetters == Chars("ABCDEFGHIJKLMNOPQRSTUVWXYZ")
LowerLetters == Chars("abcdefghijklmnopqrstuvwxyz")
DigitChars == Chars("0123456789")

Range(f) == {f[i] : i \in DOMAIN f}

UpperSet == Range(UpperLetters)
LowerSet == Range(LowerLetters)
LetterSet == UpperSet \cup LowerSet

LowerChar(c) ==
    IF c \in UpperSet
    THEN LowerLetters[CHOOSE i \in DOMAIN UpperLetters : UpperLetters[i] = c]
    ELSE c

UpperChar(c) ==
    IF c \in LowerSet
    THEN UpperLetters[CHOOSE i \in DOMAIN LowerLetters : LowerLetters[i] = c]
    ELSE c

\* str.lower()
StrLower(s) == Tuple([i \in 1..Len(s) |-> LowerChar(s[i])])

\* str.lstrip()
StrLStrip(s) ==
    IF \A i \in 1..Len(s) : s[i] \in Whitespace
    THEN EmptyStr
    ELSE LET first == CHOOSE i \in 1..Len(s) :
                          s[i] \notin Whitespace /\ \A j \in 1..(i - 1) : s[j] \in Whitespace
         IN SubSeq(s, first, Len(s))

\* str.rstrip()
StrRStrip(s) ==
    IF \A i \in 1..Len(s) : s[i] \in Whitespace
    THEN EmptyStr
    ELSE LET back == CHOOSE k \in 0..(Len(s) - 1) :
                         s[Len(s) - k] \notin Whitespace
                         /\ \A j \in (Len(s) - k + 1)..Len(s) : s[j] \in Whitespace
         IN SubSeq(s, 1, Len(s) - back)

\* str.strip()
StrStrip(s) == StrRStrip(StrLStrip(s))

\* s[at : at + len(sub)] == sub, for an index at from 1
StrMatchesAt(sub, s, at) ==
    /\ at + Len(sub) - 1 <= Len(s)
    /\ \A k \in 1..Len(sub) : s[at + k - 1] = sub[k]

\* sub in s
StrContains(sub, s) ==
    \E at \in 1..(Len(s) - Len(sub) + 1) : StrMatchesAt(sub, s, at)

\* s.find(sub), as an index from 1; 0 when sub does not occur
StrFind(sub, s) ==
    IF StrContains(sub, s)
    THEN CHOOSE at \in 1..(Len(s) - Len(sub) + 1) :
             /\ StrMatchesAt(sub, s, at)
             /\ \A j \in 1..(at - 1) : ~StrMatchesAt(sub, s, j)
    ELSE 0

\* s.split(sep) for a non-empty separator: leftmost, non-overlapping occurrences
RECURSIVE StrSplit(_, _)
StrSplit(s, sep) ==
    LET at == StrFind(sep, s)
    IN IF at = 0
       THEN <<s>>
       ELSE <<SubSeq(s, 1, at - 1)>> \o StrSplit(SubSeq(s, at + Len(sep), Len(s)), sep)

\* s.split(): the maximal runs of characters that are not white space
RECURSIVE StrSplitWhitespace(_)
StrSplitWhitespace(s) ==
    LET t == StrLStrip(s)
    IN IF t = EmptyStr
       THEN <<>>
       ELSE LET stop == IF \E i \in 1..Len(t) : t[i] \in Whitespace
                        THEN CHOOSE i \in 1..Len(t) :
                                 t[i] \in Whitespace /\ \A j \in 1..(i - 1) : t[j] \notin Whitespace
                        ELSE Len(t) + 1
            IN <<SubSeq(t, 1, stop - 1)>> \o StrSplitWhitespace(SubSeq(t, stop, Len(t)))

\* "".join(parts) / sep.join(parts)
RECURSIVE StrJoin(_, _)
StrJoin(sep, parts) ==
    IF parts = <<>> THEN EmptyStr
    ELSE IF Len(parts) = 1 THEN parts[1]
    ELSE parts[1] \o sep \o StrJoin(sep, Tail(parts))

MinOf(a, b) == IF a <= b THEN a ELSE b

-----------------------------------------------------------------------------
(* truncate_content *)

TruncationMarker == Chars("\n\n[Content truncated for length...]")

\* variant of truncate_content: the cut content is returned without the marker
truncate_content_unmarked(content, max_length) ==
    IF Len(content) <= max_length
    THEN content
    ELSE SubSeq(content, 1, max_length)

truncate_content(content, max_length) ==
    IF Len(content) <= max_length
    THEN content
    ELSE SubSeq(content, 1, max_length) \o TruncationMarker

-----------------------------------------------------------------------------
(* smart_crawl: the relevance scorer *)

MinParagraphLength == 50
TopParagraphs == 20
FallbackMaxLength == 30000

ParagraphSeparator == Chars("\n\n")
FallbackNotice == Chars("*No specifically relevant sections found. Full content:*\n\n")

\* query_terms = query.lower().split()
QueryTerms(query) == StrSplitWhitespace(StrLower(query))

\* variants of IsTooShort: the threshold itself excluded; only blank paragraphs skipped
IsTooShortInclusive(para) == Len(StrStrip(para)) <= MinParagraphLength
IsTooShortBlankOnly(para) == Len(StrStrip(para)) = 0

\* if len(para.strip()) < 50: continue
IsTooShort(para) == Len(StrStrip(para)) < MinParagraphLength

\* score = sum(1 for term in query_terms if term in para_lower)
ParagraphScore(para, terms) ==
    LET para_lower == StrLower(para)
    IN Cardinality({k \in 1..Len(terms) : StrContains(terms[k], para_lower)})

\* variant of IsKept: paragraphs that match nothing are kept too
IsKeptAlways(score) == score >= 0

\* if score > 0: scored_paragraphs.append((score, para))
IsKept(score) == score > 0

\* the for loop over paragraphs
RECURSIVE ScoreParagraphs(_, _)
ScoreParagraphs(paragraphs, terms) ==
    IF paragraphs = <<>>
    THEN <<>>
    ELSE LET para == Head(paragraphs)
             rest == ScoreParagraphs(Tail(paragraphs), terms)
         IN IF IsTooShort(para)
            THEN rest
            ELSE LET score == ParagraphScore(para, terms)
                 IN IF IsKept(score) THEN <<<<score, para>>>> \o rest ELSE rest

\* variant of SortInsert: an element goes before the elements of equal key
SortInsertBeforeTies(sorted, e) ==
    LET k == Cardinality({i \in 1..Len(sorted) : sorted[i][1] > e[1]})
    IN SubSeq(sorted, 1, k) \o <<e>> \o SubSeq(sorted, k + 1, Len(sorted))

\* list.sort(key=lambda x: x[0], reverse=True) is stable: an element goes after
\* every element whose key is greater than or equal to its own
SortInsert(sorted, e) ==
    LET k == Cardinality({i \in 1..Len(sorted) : sorted[i][1] >= e[1]})
    IN SubSeq(sorted, 1, k) \o <<e>> \o SubSeq(sorted, k + 1, Len(sorted))

RECURSIVE SortByScore(_)
SortByScore(l) ==
    IF l = <<>>
    THEN <<>>
    ELSE SortInsert(SortByScore(SubSeq(l, 1, Len(l) - 1)), l[Len(l)])

\* variant of BodyParts: every ranked paragraph is written out
BodyPartsUncapped(scored, content) ==
    IF scored # <<>>
    THEN Tuple([i \in 1..Len(scored) |-> scored[i][2] \o ParagraphSeparator])
    ELSE <<FallbackNotice, truncate_content(content, FallbackMaxLength)>>

\* the parts appended to output_parts after the "---" rule
BodyParts(scored, content) ==
    IF scored # <<>>
    THEN Tuple([i \in 1..MinOf(Len(scored), TopParagraphs) |-> scored[i][2] \o ParagraphSeparator])
    ELSE <<FallbackNotice, truncate_content(content, FallbackMaxLength)>>

-----------------------------------------------------------------------------
(* smart_crawl: the inputs explored *)

MaxParagraphs == 3
MaxQueryTerms == 2
ExtraParagraphs == 1
ExtraLength == 1

PadTo(s, n) == s \o Tuple([i \in 1..(n - Len(s)) |-> "."])

\* paragraphs around the 50-character threshold; none contains a newline
ParagraphPool ==
    << PadTo(Chars("Our pricing plans"), MinParagraphLength - 1),
       PadTo(Chars("Basic Plans and rePRICING"), MinParagraphLength),
       Chars("\t ") \o PadTo(Chars("pricing of plans"), MinParagraphLength - 2) \o Chars("  "),
       PadTo(Chars("Monthly plans for teams"), MinParagraphLength + 1) >>

TermPool == <<Chars("pricing"), Chars("PLANS"), Chars("zzz")>>

SeqsUpTo(S, n) == UNION {[1..k -> S] : k \in 0..n}

ExampleContent ==
    Chars("Short.\n\nPricing starts at $10 per month for basic plans.\n\nUnrelated filler text here that is long enough to pass the length filter.")

\* more matching paragraphs than the answer keeps
ManyParagraphsContent ==
    StrJoin(ParagraphSeparator,
            [i \in 1..(TopParagraphs + ExtraParagraphs) |->
                PadTo(IF i % 2 = 0 THEN Chars("pricing plans") ELSE Chars("pricing"),
                      MinParagraphLength + i)])

\* a page longer than the fallback's cap, with no paragraph break
LongContent == Tuple([i \in 1..(FallbackMaxLength + ExtraLength) |-> "x"])

\* a paragraph long enough after trimming, with white space on both sides
SurroundedParagraphContent ==
    Chars("Our pricing plans\n\n \t")
    \o PadTo(Chars("pricing of plans"), MinParagraphLength) \o Chars(" \n")

Contents ==
    {StrJoin(ParagraphSeparator, [i \in DOMAIN c |-> ParagraphPool[c[i]]]) :
        c \in SeqsUpTo(DOMAIN ParagraphPool, MaxParagraphs)}
    \cup {ExampleContent, ManyParagraphsContent, LongContent, SurroundedParagraphContent}

Queries ==
    {StrJoin(Chars(" "), [i \in DOMAIN q |-> TermPool[q[i]]]) :
        q \in SeqsUpTo(DOMAIN TermPool, MaxQueryTerms)}
    \cup {Chars(" \t ")}

StoreFlags == [store_in_db : BOOLEAN, store_in_graph : BOOLEAN]
NoStore == [store_in_db |-> FALSE, store_in_graph |-> FALSE]

\* what store_in_vector_db and store_in_graph_db do when called: return True,
\* return False, or raise (get_supabase and get_neo4j_driver are called
\* outside their try)
StoreOutcomes == {"True", "False", "raises"}
\* variant of OutcomesIf: the store is called whatever the flag
OutcomesAlways(called) == StoreOutcomes

OutcomesIf(called) == IF called THEN StoreOutcomes ELSE {"not called"}

\* the (query, flags) pairs explored: every query without storage, and one
\* query with every combination of the flags, which the scoring never reads
SmartCrawlCalls ==
    {<<q, NoStore>> : q \in Queries} \cup {<<TermPool[1], f>> : f \in StoreFlags}

-----------------------------------------------------------------------------
(* smart_crawl: the handler *)

InitSmartCrawl ==
    /\ sc_pc = "idle"
    /\ sc_query = EmptyStr
    /\ query_terms = <<>>
    /\ sc_content = EmptyStr
    /\ scored_paragraphs = <<>>
    /\ output_parts = <<>>
    /\ sc_result = "none"
    /\ sc_flags = NoStore
    /\ sc_calls = {}

\* smart_crawl(url, query, max_pages, store_in_db, store_in_graph) up to the
\* await of crawler.arun
SmartCrawlCall ==
    /\ sc_pc = "idle"
    /\ \E call \in SmartCrawlCalls :
        /\ sc_query' = call[1]
        /\ query_terms' = QueryTerms(call[1])
        /\ sc_flags' = call[2]
    /\ sc_pc' = "fetching"
    /\ UNCHANGED <<sc_content, scored_paragraphs, output_parts, sc_result, sc_calls>>
    /\ UNCHANGED sc_others

\* crawler.arun raises: return "Error in smart crawl: ..."
ArunRaises ==
    /\ sc_pc = "fetching"
    /\ sc_pc' = "done"
    /\ sc_result' = "exception"
    /\ UNCHANGED <<sc_query, query_terms, sc_content, scored_paragraphs, output_parts, sc_flags,
                   sc_calls>>
    /\ UNCHANGED sc_others

\* not result.success: return "Error crawling ..."
ArunFails ==
    /\ sc_pc = "fetching"
    /\ sc_pc' = "done"
    /\ sc_result' = "fetch_error"
    /\ UNCHANGED <<sc_query, query_terms, sc_content, scored_paragraphs, output_parts, sc_flags,
                   sc_calls>>
    /\ UNCHANGED sc_others

\* result.success: split, score, sort, run the stores asked for, build the
\* answer. The lines written before the "---" rule (query, source, count,
\* storage status) are not part of output_parts here. A store that raises
\* ends the handler with "Error in smart crawl: ...".
ArunSucceeds ==
    /\ sc_pc = "fetching"
    /\ \E content \in Contents :
        LET paragraphs == StrSplit(content, ParagraphSeparator)
            scored == SortByScore(ScoreParagraphs(paragraphs, query_terms))
        IN /\ sc_content' = content
           /\ scored_paragraphs' = scored
           /\ \E vector \in OutcomesIf(sc_flags.store_in_db) :
              \E graph \in OutcomesIf(sc_flags.store_in_graph /\ vector # "raises") :
                 /\ sc_calls' = {"score"}
                                  \cup (IF vector # "not called" THEN {"vector"} ELSE {})
                                  \cup (IF graph # "not called" THEN {"graph"} ELSE {})
                 /\ IF "raises" \in {vector, graph}
                    THEN /\ output_parts' = <<>>
                         /\ sc_result' = "store_raised"
                    ELSE /\ output_parts' = BodyParts(scored, content)
                         /\ sc_result' = "ok"
    /\ sc_pc' = "done"
    /\ UNCHANGED <<sc_query, query_terms, sc_flags>>
    /\ UNCHANGED sc_others

NextSmartCrawl == SmartCrawlCall \/ ArunRaises \/ ArunFails \/ ArunSucceeds

-----------------------------------------------------------------------------
(* urllib.parse.urlparse(url).netloc, as extract_entities_and_relations uses it *)

SchemeChars == LetterSet \cup Range(DigitChars) \cup {"+", "-", "."}
UnsafeUrlChars == {"\t", "\r", "\n"}
NetlocDelimiters == {"/", "?", "#"}

\* the bracketed hosts ipaddress.ip_address accepts as IPv6, among those explored
ValidBracketedHosts == {Chars("::1")}

StrRemove(s, chars) == SelectSeq(s, LAMBDA c : c \notin chars)

\* url after the leading control characters and spaces, the tabs and the
\* newlines are removed, and the scheme is split off
UrlAfterScheme(url) ==
    LET u == StrRemove(StrLStrip(url), UnsafeUrlChars)
        colon == StrFind(<<":">>, u)
    IN IF /\ colon > 1
          /\ u[1] \in LetterSet
          /\ \A i \in 1..(colon - 1) : u[i] \in SchemeChars
       THEN SubSeq(u, colon + 1, Len(u))
       ELSE u

\* _splitnetloc(url, 2): up to the first of "/", "?", "#"
UrlSplitNetloc(rest) ==
    LET stops == {i \in 3..Len(rest) : rest[i] \in NetlocDelimiters}
        delim == IF stops = {} THEN Len(rest) + 1
                 ELSE CHOOSE i \in stops : \A j \in stops : i <= j
    IN SubSeq(rest, 3, delim - 1)

\* [ok |-> FALSE] when urlsplit raises ValueError
UrlParseNetloc(url) ==
    LET rest == UrlAfterScheme(url)
    IN IF Len(rest) >= 2 /\ rest[1] = "/" /\ rest[2] = "/"
       THEN LET netloc == UrlSplitNetloc(rest)
                open == "[" \in Range(netloc)
                close == "]" \in Range(netloc)
            IN IF open # close
               THEN [ok |-> FALSE, netloc |-> EmptyStr]
               ELSE IF open /\ close
                       /\ SubSeq(netloc, StrFind(<<"[">>, netloc) + 1,
                                 StrFind(<<"[">>, netloc) - 1
                                 + StrFind(<<"]">>, SubSeq(netloc, StrFind(<<"[">>, netloc), Len(netloc))) - 1)
                          \notin ValidBracketedHosts
               THEN [ok |-> FALSE, netloc |-> EmptyStr]
               ELSE [ok |-> TRUE, netloc |-> netloc]
       ELSE [ok |-> TRUE, netloc |-> EmptyStr]

-----------------------------------------------------------------------------
(* extract_entities_and_relations *)

MaxLinks == 20

TopicKeywords ==
    << Chars("api"), Chars("sdk"), Chars("authentication"), Chars("authorization"),
       Chars("database"), Chars("deployment"), Chars("configuration"), Chars("tutorial"),
       Chars("guide"), Chars("documentation"), Chars("example"), Chars("reference"),
       Chars("endpoint"), Chars("webhook"), Chars("integration"), Chars("security"),
       Chars("performance"), Chars("optimization"), Chars("testing"), Chars("debugging") >>

\* \w of the regular expressions
WordChars == LetterSet \cup Range(DigitChars) \cup {"_"}

\* \b at the position before s[at] (at = Len(s) + 1: the end of s)
WordBoundary(s, at) ==
    (at > 1 /\ s[at - 1] \in WordChars) # (at <= Len(s) /\ s[at] \in WordChars)

\* (?i): keyword matches s at index at in any letter case
KeywordMatchesAt(keyword, s, at) ==
    /\ at + Len(keyword) - 1 <= Len(s)
    /\ \A k \in 1..Len(keyword) : LowerChar(s[at + k - 1]) = keyword[k]

\* the alternatives of the topic pattern that match at index at, \b on both sides
TopicAlternativesAt(s, at) ==
    {k \in DOMAIN TopicKeywords :
        /\ WordBoundary(s, at)
        /\ KeywordMatchesAt(TopicKeywords[k], s, at)
        /\ WordBoundary(s, at + Len(TopicKeywords[k]))}

\* re.findall(pattern, s) from index at on: the matched texts, left to right,
\* not overlapping; the scan goes on to the next position where an alternative
\* matches, and the first alternative that matches there is taken
RECURSIVE TopicFindAll(_, _)
TopicFindAll(s, at) ==
    LET starts == {i \in at..Len(s) : TopicAlternativesAt(s, i) # {}}
    IN IF starts = {}
       THEN <<>>
       ELSE LET first == CHOOSE i \in starts : \A j \in starts : i <= j
                hits == TopicAlternativesAt(s, first)
                k == CHOOSE h \in hits : \A g \in hits : h <= g
                stop == first + Len(TopicKeywords[k])
            IN <<SubSeq(s, first, stop - 1)>> \o TopicFindAll(s, stop)

\* variant of TopicsFound: the content is searched as it is, not lower-cased
TopicsFoundRaw(content) == Range(TopicFindAll(content, 1))

\* topics_found: the set of the matches in content.lower()
TopicsFound(content) == Range(TopicFindAll(StrLower(content), 1))

IsLetter(c) == c \in LetterSet

\* str.title()
StrTitle(s) ==
    Tuple([i \in 1..Len(s) |->
              IF i = 1 \/ ~IsLetter(s[i - 1]) THEN UpperChar(s[i]) ELSE LowerChar(s[i])])

\* the characters the link pattern's class leaves out: white space and
\* < > " { } | \ ^ [ ] (and the backquote, which no modelled string holds)
LinkExcluded == Whitespace \cup {"<", ">", "\"", "{", "}", "|", "\\", "^", "[", "]"}

\* the length of the scheme part the link pattern matches at index at, 0 when none
HttpsPrefix == Chars("https://")
HttpPrefix == Chars("http://")

LinkPrefixAt(s, at) ==
    IF StrMatchesAt(HttpsPrefix, s, at) THEN Len(HttpsPrefix)
    ELSE IF StrMatchesAt(HttpPrefix, s, at) THEN Len(HttpPrefix)
    ELSE 0

\* the index after the greedy run of allowed characters that starts at index at
LinkRunEnd(s, at) ==
    LET stops == {i \in at..Len(s) : s[i] \in LinkExcluded}
    IN IF stops = {} THEN Len(s) + 1 ELSE CHOOSE i \in stops : \A j \in stops : i <= j

\* re.findall(link_pattern, s) from index at on
RECURSIVE LinkFindAll(_, _)
LinkFindAll(s, at) ==
    IF at > Len(s)
    THEN <<>>
    ELSE LET prefix == LinkPrefixAt(s, at)
             stop == LinkRunEnd(s, at + prefix)
         IN IF prefix > 0 /\ stop > at + prefix
            THEN <<SubSeq(s, at, stop - 1)>> \o LinkFindAll(s, stop)
            ELSE LinkFindAll(s, at + 1)

\* variant of FirstLinks: every match is examined
FirstLinksUncapped(links) == links

\* links[:20]
FirstLinks(links) == SubSeq(links, 1, MinOf(Len(links), MaxLinks))

\* variant of PageEntity: the title is written as it was given
PageEntityTitleAsGiven(url, title, domain, now) ==
    [type |-> "WebPage", url |-> url, title |-> title, domain |-> domain, crawled_at |-> now]

\* "title": title or url
PageEntity(url, title, domain, now) ==
    [type |-> "WebPage", url |-> url, title |-> IF title = EmptyStr THEN url ELSE title,
     domain |-> domain, crawled_at |-> now]

DomainEntity(domain) == [type |-> "Domain", name |-> domain]

\* variant of TopicEntity: the matched text is the name as it is
TopicEntityAsMatched(topic) == [type |-> "Topic", name |-> topic]

TopicEntity(topic) == [type |-> "Topic", name |-> StrTitle(topic)]

Relation(from_type, from_id, to_type, to_id, relation) ==
    [from_type |-> from_type, from_id |-> from_id, to_type |-> to_type, to_id |-> to_id,
     relation |-> relation]

\* variant of ExtractEntities: a WebPage entity is appended for every link target
ExtractEntitiesWithLinkPages(url, title, domain, now, topics, links) ==
    <<PageEntity(url, title, domain, now), DomainEntity(domain)>>
    \o Tuple([i \in DOMAIN topics |-> TopicEntity(topics[i])])
    \o Tuple([i \in DOMAIN links |-> PageEntity(links[i], EmptyStr, EmptyStr, now)])

\* entities: the page, the domain, one Topic per element of topics_found in the
\* order the set is iterated (topics)
ExtractEntities(url, title, domain, now, topics, links) ==
    <<PageEntity(url, title, domain, now), DomainEntity(domain)>>
    \o Tuple([i \in DOMAIN topics |-> TopicEntity(topics[i])])

\* urlparse(link).netloc
LinkNetloc(link) == UrlParseNetloc(link).netloc

\* the links among the first 20 whose netloc is not empty and is not domain;
\* a link holds no "[" or "]" and no white space, so urlparse(link) does not raise
CrossDomainLinks(domain, links) ==
    SelectSeq(FirstLinks(links),
              LAMBDA link : LET netloc == LinkNetloc(link)
                            IN netloc # EmptyStr /\ netloc # domain)

\* variant of ExtractRelations: COVERS_TOPIC points at the topic as it was matched
ExtractRelationsToMatchedTopic(url, domain, topics, links) ==
    <<Relation("WebPage", url, "Domain", domain, "BELONGS_TO")>>
    \o Tuple([i \in DOMAIN topics |->
                 Relation("WebPage", url, "Topic", topics[i], "COVERS_TOPIC")])
    \o LET kept == CrossDomainLinks(domain, links)
       IN Tuple([i \in DOMAIN kept |-> Relation("WebPage", url, "WebPage", kept[i], "LINKS_TO")])

\* relations: BELONGS_TO, one COVERS_TOPIC per topic, one LINKS_TO per kept link
ExtractRelations(url, domain, topics, links) ==
    <<Relation("WebPage", url, "Domain", domain, "BELONGS_TO")>>
    \o Tuple([i \in DOMAIN topics |->
                 Relation("WebPage", url, "Topic", StrTitle(topics[i]), "COVERS_TOPIC")])
    \o LET kept == CrossDomainLinks(domain, links)
       IN Tuple([i \in DOMAIN kept |-> Relation("WebPage", url, "WebPage", kept[i], "LINKS_TO")])

\* the orders in which a Python set of strings can be iterated
IterationOrders(S) ==
    {order \in [1..Cardinality(S) -> S] : \A i, j \in DOMAIN order : order[i] = order[j] => i = j}

-----------------------------------------------------------------------------
(* extract_entities_and_relations: the inputs explored *)

MaxContentTokens == 2
MaxTime == 1
ExtraLinks == 1

UrlPool ==
    { Chars("https://docs.example.com/auth"),
      Chars("HTTP://Docs.Example.com:80/a?b"),
      EmptyStr,
      Chars("/relative/path"),
      Chars("http://[bad/x") }

TitlePool == {EmptyStr, Chars("Auth Guide")}

TokenPool ==
    << Chars("Authentication"),
       Chars("authentication,"),
       Chars("oauthentication"),
       Chars("API_key"),
       Chars("https://api.other.com/ref"),
       Chars("https://docs.example.com/x") >>

ExampleExtractContent == Chars("See authentication docs at https://api.other.com/ref")

ShortLink == Chars("http://b.io/r")

\* more link matches than the loop examines: the second stays on
\* docs.example.com, the others lead to another site
ManyLinksContent ==
    StrJoin(Chars(" "),
            [i \in 1..(MaxLinks + ExtraLinks) |-> IF i = 2 THEN TokenPool[6] ELSE ShortLink])

ExtractContents ==
    {StrJoin(Chars(" "), [i \in DOMAIN c |-> TokenPool[c[i]]]) :
        c \in SeqsUpTo(DOMAIN TokenPool, MaxContentTokens)}
    \cup {ExampleExtractContent, ManyLinksContent}

-----------------------------------------------------------------------------
(* extract_entities_and_relations: the call *)

InitExtract ==
    /\ ex_pc = "idle"
    /\ ex_url = EmptyStr
    /\ ex_title = EmptyStr
    /\ ex_content = EmptyStr
    /\ entities = <<>>
    /\ relations = <<>>

\* urlparse(url) raises ValueError, which the function does not catch
ExtractRaises ==
    /\ ex_pc = "idle"
    /\ \E url \in UrlPool, title \in TitlePool, content \in ExtractContents :
        /\ ~UrlParseNetloc(url).ok
        /\ ex_url' = url
        /\ ex_title' = title
        /\ ex_content' = content
    /\ ex_pc' = "raised"
    /\ UNCHANGED <<entities, relations>>
    /\ UNCHANGED ex_others

\* the call returns (entities, relations); datetime.utcnow() is now, and the
\* set topics_found is iterated in the order topics
ExtractReturns ==
    /\ ex_pc = "idle"
    /\ \E content \in ExtractContents :
        LET found == TopicsFound(content)
            links == LinkFindAll(content, 1)
        IN \E url \in UrlPool :
            LET parsed == UrlParseNetloc(url)
            IN /\ parsed.ok
               /\ \E title \in TitlePool, now \in 0..MaxTime, topics \in IterationOrders(found) :
                    /\ entities' = ExtractEntities(url, title, parsed.netloc, now, topics, links)
                    /\ relations' = ExtractRelations(url, parsed.netloc, topics, links)
                    /\ ex_url' = url
                    /\ ex_title' = title
                    /\ ex_content' = content
    /\ ex_pc' = "returned"
    /\ UNCHANGED ex_others

NextExtract == ExtractRaises \/ ExtractReturns

-----------------------------------------------------------------------------
(* concurrent invocations of the extractor and of smart_crawl's scorer, each  *)
(* taken statement by statement                                              *)

Invocations == {1, 2}

InvocationUrls == {Chars("https://docs.example.com/auth"), Chars("/relative/path")}
InvocationTitle == Chars("Auth Guide")
InvocationContents ==
    {ExampleExtractContent, Chars("Authentication authentication, https://docs.example.com/x")}
InvocationQueries == {Chars("pricing"), Chars("PLANS pricing")}
InvocationPages ==
    { StrJoin(ParagraphSeparator, <<ParagraphPool[4], ParagraphPool[2]>>),
      StrJoin(ParagraphSeparator, <<ParagraphPool[1], ParagraphPool[2], ParagraphPool[4]>>) }

NoArgs == [kind |-> "none"]

\* variant of Frame: the lists live at module level, one for all invocations
FrameShared(i) == 1

\* the frame that holds the locals of invocation i: every call creates its own
\* lists (entities = [], relations = [], scored_paragraphs = [])
Frame(i) == i

InProgress(i) == inv_pc[i] \notin {"idle", "returned"}
Overlaps(i) == inv_overlapped \/ \E j \in Invocations \ {i} : InProgress(j)

InitInvocations ==
    /\ clock = 0
    /\ inv_pc = [i \in Invocations |-> "idle"]
    /\ inv_args = [i \in Invocations |-> NoArgs]
    /\ inv_entities = [i \in Invocations |-> <<>>]
    /\ inv_relations = [i \in Invocations |-> <<>>]
    /\ inv_todo = [i \in Invocations |-> <<>>]
    /\ inv_scored = [i \in Invocations |-> <<>>]
    /\ inv_result = [i \in Invocations |-> <<>>]
    /\ inv_overlapped = FALSE

\* time passes
ClockTick ==
    /\ clock < MaxTime
    /\ clock' = clock + 1
    /\ UNCHANGED <<inv_pc, inv_args, inv_entities, inv_relations, inv_todo, inv_scored,
                   inv_result, inv_overlapped>>
    /\ UNCHANGED inv_others

\* extract_entities_and_relations, lines 238-269: the lists are created, the
\* url is parsed, the page, the domain and BELONGS_TO are appended
ExtractBegin(i) ==
    /\ inv_pc[i] = "idle"
    /\ \E url \in InvocationUrls, content \in InvocationContents :
        LET parsed == UrlParseNetloc(url)
        IN /\ parsed.ok
           /\ inv_args' = [inv_args EXCEPT ![i] = [kind |-> "extract", url |-> url,
                                                   title |-> InvocationTitle, content |-> content]]
           /\ inv_entities' = [inv_entities EXCEPT ![Frame(i)] =
                                  <<PageEntity(url, InvocationTitle, parsed.netloc, clock),
                                    DomainEntity(parsed.netloc)>>]
           /\ inv_relations' = [inv_relations EXCEPT ![Frame(i)] =
                                   <<Relation("WebPage", url, "Domain", parsed.netloc, "BELONGS_TO")>>]
    /\ inv_pc' = [inv_pc EXCEPT ![i] = "topics"]
    /\ inv_overlapped' = Overlaps(i)
    /\ UNCHANGED <<clock, inv_todo, inv_scored, inv_result>>
    /\ UNCHANGED inv_others

\* lines 271-297: the topics are found and one entity and one relation are
\* appended for each, in the order the set is iterated
ExtractTopics(i) ==
    /\ inv_pc[i] = "topics"
    /\ \E topics \in IterationOrders(TopicsFound(inv_args[i].content)) :
        /\ inv_entities' = [inv_entities EXCEPT ![Frame(i)] =
                               @ \o Tuple([k \in DOMAIN topics |-> TopicEntity(topics[k])])]
        /\ inv_relations' = [inv_relations EXCEPT ![Frame(i)] =
                                @ \o Tuple([k \in DOMAIN topics |->
                                               Relation("WebPage", inv_args[i].url, "Topic",
                                                        StrTitle(topics[k]), "COVERS_TOPIC")])]
    /\ inv_pc' = [inv_pc EXCEPT ![i] = "links"]
    /\ inv_overlapped' = Overlaps(i)
    /\ UNCHANGED <<clock, inv_args, inv_todo, inv_scored, inv_result>>
    /\ UNCHANGED inv_others

\* lines 299-314: LINKS_TO is appended for the links kept, and the lists are returned
ExtractLinks(i) ==
    /\ inv_pc[i] = "links"
    /\ LET url == inv_args[i].url
           kept == CrossDomainLinks(UrlParseNetloc(url).netloc,
                                    LinkFindAll(inv_args[i].content, 1))
           all == inv_relations[Frame(i)]
                  \o Tuple([k \in DOMAIN kept |->
                               Relation("WebPage", url, "WebPage", kept[k], "LINKS_TO")])
       IN /\ inv_relations' = [inv_relations EXCEPT ![Frame(i)] = all]
          /\ inv_result' = [inv_result EXCEPT ![i] = <<inv_entities[Frame(i)], all>>]
    /\ inv_pc' = [inv_pc EXCEPT ![i] = "returned"]
    /\ inv_overlapped' = Overlaps(i)
    /\ UNCHANGED <<clock, inv_args, inv_entities, inv_todo, inv_scored>>
    /\ UNCHANGED inv_others

\* smart_crawl, lines 670 and 684-689: the query terms, the paragraphs and the empty list
ScoreBegin(i) ==
    /\ inv_pc[i] = "idle"
    /\ \E query \in InvocationQueries, content \in InvocationPages :
        /\ inv_args' = [inv_args EXCEPT ![i] = [kind |-> "score", query |-> query,
                                                content |-> content]]
        /\ inv_todo' = [inv_todo EXCEPT ![Frame(i)] = StrSplit(content, ParagraphSeparator)]
    /\ inv_scored' = [inv_scored EXCEPT ![Frame(i)] = <<>>]
    /\ inv_pc' = [inv_pc EXCEPT ![i] = "scoring"]
    /\ inv_overlapped' = Overlaps(i)
    /\ UNCHANGED <<clock, inv_entities, inv_relations, inv_result>>
    /\ UNCHANGED inv_others

\* lines 691-699: one turn of the for loop
ScoreParagraph(i) ==
    /\ inv_pc[i] = "scoring"
    /\ inv_todo[Frame(i)] # <<>>
    /\ LET para == Head(inv_todo[Frame(i)])
           score == ParagraphScore(para, QueryTerms(inv_args[i].query))
       IN inv_scored' = [inv_scored EXCEPT ![Frame(i)] =
                            IF ~IsTooShort(para) /\ IsKept(score)
                            THEN Append(@, <<score, para>>)
                            ELSE @]
    /\ inv_todo' = [inv_todo EXCEPT ![Frame(i)] = Tail(@)]
    /\ inv_overlapped' = Overlaps(i)
    /\ UNCHANGED <<clock, inv_pc, inv_args, inv_entities, inv_relations, inv_result>>
    /\ UNCHANGED inv_others

\* line 702: the sort; the ranked list is what the rest of smart_crawl writes out
ScoreSort(i) ==
    /\ inv_pc[i] = "scoring"
    /\ inv_todo[Frame(i)] = <<>>
    /\ LET sorted == SortByScore(inv_scored[Frame(i)])
       IN /\ inv_scored' = [inv_scored EXCEPT ![Frame(i)] = sorted]
          /\ inv_result' = [inv_result EXCEPT ![i] = sorted]
    /\ inv_pc' = [inv_pc EXCEPT ![i] = "returned"]
    /\ inv_overlapped' = Overlaps(i)
    /\ UNCHANGED <<clock, inv_args, inv_entities, inv_relations, inv_todo>>
    /\ UNCHANGED inv_others

NextInvocations ==
    \/ ClockTick
    \/ \E i \in Invocations :
           \/ ExtractBegin(i) \/ ExtractTopics(i) \/ ExtractLinks(i)
           \/ ScoreBegin(i) \/ ScoreParagraph(i) \/ ScoreSort(i)

-----------------------------------------------------------------------------
(* store_in_graph_db and the Cypher statements it runs *)

MaxStoreCalls == 2

\* title: Optional[str] = None
NoneValue == <<"None">>

NodeKey(node) == <<node.label, node.key>>
MatchingNodes(nodes, label, key) ==
    {i \in DOMAIN nodes : nodes[i].label = label /\ nodes[i].key = key}

\* variant of MergeNode: CREATE, a new node whatever the store holds
MergeNodeAsCreate(nodes, label, key) ==
    Append(nodes, [label |-> label, key |-> key, props |-> <<>>])

\* MERGE (n:Label {key: $key}): a node is created when none matches
MergeNode(nodes, label, key) ==
    IF MatchingNodes(nodes, label, key) # {}
    THEN nodes
    ELSE Append(nodes, [label |-> label, key |-> key, props |-> <<>>])

\* SET p.title = ..., p.domain = ..., p.crawled_at = ... on the nodes matched
SetProps(nodes, label, key, props) ==
    Tuple([i \in DOMAIN nodes |->
              IF i \in MatchingNodes(nodes, label, key)
              THEN [nodes[i] EXCEPT !.props = props]
              ELSE nodes[i]])

\* the statement run for one entity
UpsertEntity(nodes, entity) ==
    IF entity.type = "WebPage"
    THEN SetProps(MergeNode(nodes, "WebPage", entity.url), "WebPage", entity.url,
                  <<entity.title, entity.domain, entity.crawled_at>>)
    ELSE MergeNode(nodes, entity.type, entity.name)

\* for entity in entities
RECURSIVE UpsertEntities(_, _)
UpsertEntities(nodes, ents) ==
    IF ents = <<>> THEN nodes ELSE UpsertEntities(UpsertEntity(nodes, Head(ents)), Tail(ents))

\* MERGE (a)-[:KIND]->(b) for every pair of matched nodes: a relationship is
\* created when the pair has none of that kind
RECURSIVE MergeEdges(_, _, _)
MergeEdges(edges, kind, pairs) ==
    IF pairs = {}
    THEN edges
    ELSE LET pair == CHOOSE q \in pairs : \A r \in pairs : q[1] < r[1] \/ (q[1] = r[1] /\ q[2] <= r[2])
             present == \E k \in DOMAIN edges :
                            edges[k] = [kind |-> kind, from |-> pair[1], to |-> pair[2]]
         IN MergeEdges(IF present THEN edges
                       ELSE Append(edges, [kind |-> kind, from |-> pair[1], to |-> pair[2]]),
                       kind, pairs \ {pair})

\* variant of MergeRelation: the target of LINKS_TO is matched, not merged
MergeRelationMatchOnly(store, rel) ==
    LET pairs == MatchingNodes(store.nodes, rel.from_type, rel.from_id)
                 \X MatchingNodes(store.nodes, rel.to_type, rel.to_id)
    IN [nodes |-> store.nodes, edges |-> MergeEdges(store.edges, rel.relation, pairs)]

\* the statement run for one relation: MATCH the source, MATCH the target
\* (for LINKS_TO: MERGE it), MERGE the relationship
MergeRelation(store, rel) ==
    LET nodes == IF rel.relation = "LINKS_TO" /\ MatchingNodes(store.nodes, "WebPage", rel.from_id) # {}
                 THEN MergeNode(store.nodes, "WebPage", rel.to_id)
                 ELSE store.nodes
        pairs == MatchingNodes(nodes, rel.from_type, rel.from_id)
                 \X MatchingNodes(nodes, rel.to_type, rel.to_id)
    IN [nodes |-> nodes, edges |-> MergeEdges(store.edges, rel.relation, pairs)]

\* for rel in relations
RECURSIVE MergeRelations(_, _)
MergeRelations(store, rels) ==
    IF rels = <<>> THEN store ELSE MergeRelations(MergeRelation(store, Head(rels)), Tail(rels))

\* is there a relationship of rel's kind between nodes with rel's keys
HasEdge(store, rel) ==
    \E k \in DOMAIN store.edges :
        /\ store.edges[k].kind = rel.relation
        /\ store.edges[k].from \in MatchingNodes(store.nodes, rel.from_type, rel.from_id)
        /\ store.edges[k].to \in MatchingNodes(store.nodes, rel.to_type, rel.to_id)

\* the relation statements run from store on, in order: whether both ends
\* were in the store before the statement and whether the relationship is
\* there after it
RECURSIVE RelationLog(_, _)
RelationLog(store, rels) ==
    IF rels = <<>>
    THEN <<>>
    ELSE LET rel == Head(rels)
             after == MergeRelation(store, rel)
         IN <<[op |-> "merge", kind |-> rel.relation,
               ends |-> /\ MatchingNodes(store.nodes, rel.from_type, rel.from_id) # {}
                        /\ MatchingNodes(store.nodes, rel.to_type, rel.to_id) # {},
               merged |-> HasEdge(after, rel)]>>
            \o RelationLog(after, Tail(rels))

\* the session.run calls of a call that ran done statements, in order
StatementLog(nodes, edges, ents, rels, done) ==
    LET upserted == MinOf(done, Len(ents))
    IN Tuple([k \in 1..upserted |->
                 [op |-> "upsert", kind |-> ents[k].type, ends |-> TRUE, merged |-> TRUE]])
       \o RelationLog([nodes |-> UpsertEntities(nodes, SubSeq(ents, 1, upserted)),
                       edges |-> edges],
                      SubSeq(rels, 1, done - upserted))

\* what is kept of a call's statements: whether every entity statement came
\* before every relation statement, the kinds of relation whose statement
\* ran, those that ran with an end missing from the store, and those that
\* left no relationship
LogSummary(log) ==
    LET merges == {k \in DOMAIN log : log[k].op = "merge"}
    IN [in_order |-> \A u \in DOMAIN log \ merges, m \in merges : u < m,
        kinds |-> {log[m].kind : m \in merges},
        endless |-> {log[m].kind : m \in {k \in merges : ~log[k].ends}},
        unmerged |-> {log[m].kind : m \in {k \in merges : ~log[k].merged}}]

-----------------------------------------------------------------------------
(* store_in_graph_db: the inputs explored *)

StoreUrls == {Chars("https://docs.example.com/auth"), Chars("https://api.other.com/ref"),
              Chars("http://[bad/x")}
\* a page that links to the other page, and a page that links twice to the first
StoreContents ==
    { ExampleExtractContent,
      Chars("API_key https://docs.example.com/auth https://docs.example.com/auth") }

\* the calls explored, as (url, title, content): the first page without and
\* with a title, the page it links to, and a url urlparse rejects
StoreArgs ==
    { <<Chars("https://docs.example.com/auth"), NoneValue, ExampleExtractContent>>,
      <<Chars("https://docs.example.com/auth"), Chars("Auth Guide"), ExampleExtractContent>>,
      <<Chars("https://api.other.com/ref"), NoneValue,
        Chars("API_key https://docs.example.com/auth https://docs.example.com/auth")>>,
      <<Chars("http://[bad/x"), NoneValue, ExampleExtractContent>> }
StoreTimes == {0, 1}

\* the matches of the two patterns in each content explored
StoreTopics == [content \in StoreContents |-> TopicsFound(content)]
StoreLinks == [content \in StoreContents |-> LinkFindAll(content, 1)]
StoreNetloc == [url \in StoreUrls |-> UrlParseNetloc(url)]

NoCall == [args |-> <<>>, ok |-> FALSE, again |-> FALSE, log |-> LogSummary(<<>>)]

-----------------------------------------------------------------------------
(* store_in_graph_db: the calls *)

InitGraphStore ==
    /\ GRAPH_RAG_AVAILABLE = "unset"
    /\ graph_nodes = <<>>
    /\ graph_edges = <<>>
    /\ gs_calls = 0
    /\ gs_last = NoCall

\* the module is loaded: GRAPH_RAG_AVAILABLE = NEO4J_AVAILABLE and NEO4J_URI and NEO4J_PASSWORD
LoadGraphConfiguration ==
    /\ GRAPH_RAG_AVAILABLE = "unset"
    /\ GRAPH_RAG_AVAILABLE' \in {"True", "False"}
    /\ UNCHANGED <<graph_nodes, graph_edges, gs_calls, gs_last>>
    /\ UNCHANGED gs_others

\* store_in_graph_db(url, content, title) returns False and runs no statement:
\* the feature is not configured, or extract_entities_and_relations raises
StoreInGraphDbFails ==
    /\ GRAPH_RAG_AVAILABLE # "unset"
    /\ gs_calls < MaxStoreCalls
    /\ \E args \in StoreArgs :
        /\ GRAPH_RAG_AVAILABLE = "False" \/ ~StoreNetloc[args[1]].ok
        /\ gs_last' = [args |-> args, ok |-> FALSE, again |-> FALSE, log |-> LogSummary(<<>>)]
    /\ gs_calls' = gs_calls + 1
    /\ UNCHANGED <<GRAPH_RAG_AVAILABLE, graph_nodes, graph_edges>>
    /\ UNCHANGED gs_others

\* store_in_graph_db(url, content, title) returns True: the entities are
\* upserted, then the relations are merged
StoreInGraphDb ==
    /\ GRAPH_RAG_AVAILABLE = "True"
    /\ gs_calls < MaxStoreCalls
    /\ \E args \in StoreArgs :
        /\ StoreNetloc[args[1]].ok
        /\ \E now \in StoreTimes, topics \in IterationOrders(StoreTopics[args[3]]) :
            LET url == args[1]
                title == args[2]
                content == args[3]
                domain == StoreNetloc[url].netloc
                text == IF title \in {NoneValue, EmptyStr} THEN EmptyStr ELSE title
                ents == ExtractEntities(url, text, domain, now, topics, StoreLinks[content])
                rels == ExtractRelations(url, domain, topics, StoreLinks[content])
                store == MergeRelations([nodes |-> UpsertEntities(graph_nodes, ents),
                                         edges |-> graph_edges], rels)
            IN /\ graph_nodes' = store.nodes
               /\ graph_edges' = store.edges
               /\ gs_last' = [args |-> args, ok |-> TRUE,
                               again |-> gs_last.ok /\ gs_last.args = args,
                               log |-> LogSummary(StatementLog(graph_nodes, graph_edges,
                                                               ents, rels,
                                                               Len(ents) + Len(rels)))]
    /\ gs_calls' = gs_calls + 1
    /\ UNCHANGED GRAPH_RAG_AVAILABLE
    /\ UNCHANGED gs_others

\* store_in_graph_db(url, content, title) returns False after session.run
\* raised: the statements run before it (each its own transaction) stay
StoreInGraphDbInterrupted ==
    /\ GRAPH_RAG_AVAILABLE = "True"
    /\ gs_calls < MaxStoreCalls
    /\ \E args \in StoreArgs :
        /\ StoreNetloc[args[1]].ok
        /\ \E now \in StoreTimes, topics \in IterationOrders(StoreTopics[args[3]]) :
            LET url == args[1]
                title == args[2]
                content == args[3]
                domain == StoreNetloc[url].netloc
                text == IF title \in {NoneValue, EmptyStr} THEN EmptyStr ELSE title
                ents == ExtractEntities(url, text, domain, now, topics, StoreLinks[content])
                rels == ExtractRelations(url, domain, topics, StoreLinks[content])
            IN \E done \in 0..(Len(ents) + Len(rels) - 1) :
                LET store == MergeRelations(
                                 [nodes |-> UpsertEntities(graph_nodes,
                                                           SubSeq(ents, 1, MinOf(done, Len(ents)))),
                                  edges |-> graph_edges],
                                 SubSeq(rels, 1, done - MinOf(done, Len(ents))))
                IN /\ graph_nodes' = store.nodes
                   /\ graph_edges' = store.edges
                   /\ gs_last' = [args |-> args, ok |-> FALSE, again |-> FALSE,
                                   log |-> LogSummary(StatementLog(graph_nodes, graph_edges,
                                                                   ents, rels, done))]
    /\ gs_calls' = gs_calls + 1
    /\ UNCHANGED GRAPH_RAG_AVAILABLE
    /\ UNCHANGED gs_others

NextGraphStore ==
    LoadGraphConfiguration \/ StoreInGraphDbFails \/ StoreInGraphDb \/ StoreInGraphDbInterrupted

-----------------------------------------------------------------------------
(* crawl_multiple_pages *)

MaxUrls == 3
DefaultMaxConcurrent == 5

\* the values of the environment variable and of the argument explored
MaxConcurrentSettings == {2, DefaultMaxConcurrent}
MaxConcurrentArguments == {-1, 0, 1, 3, 6}
\* variant of EffectiveLimit: the argument is taken as it is
EffectiveLimitUncapped(max_concurrent, ceiling) == max_concurrent

\* max_concurrent = min(max_concurrent, MAX_CONCURRENT)
EffectiveLimit(max_concurrent, ceiling) == MinOf(max_concurrent, ceiling)

Tasks == 1..mp_args.urls
InFlight == Cardinality({i \in DOMAIN task_pc : task_pc[i] = "fetching"})

InitCrawlMultiple ==
    /\ MAX_CONCURRENT = DefaultMaxConcurrent
    /\ mp_pc = "unloaded"
    /\ mp_args = [urls |-> 0, max_concurrent |-> DefaultMaxConcurrent,
                   store_in_db |-> FALSE, store_in_graph |-> FALSE]
    /\ mp_limit = DefaultMaxConcurrent
    /\ semaphore = 0
    /\ task_pc = <<>>
    /\ results = <<>>
    /\ mp_next = 0
    /\ mp_entries = <<>>
    /\ mp_store_calls = {}
    /\ mp_result = "none"
    /\ mp_header = [urls |-> 0, successful |-> 0, failed |-> 0]
    /\ mp_overtaken = FALSE

\* the module is loaded: MAX_CONCURRENT = int(os.getenv("MAX_CONCURRENT", "5"))
LoadConcurrencyConfiguration ==
    /\ mp_pc = "unloaded"
    /\ MAX_CONCURRENT' \in MaxConcurrentSettings
    /\ mp_pc' = "idle"
    /\ UNCHANGED <<mp_args, mp_limit, semaphore, task_pc, results, mp_next, mp_entries,
                   mp_store_calls, mp_result>>
    /\ UNCHANGED <<mp_header, mp_overtaken>>
    /\ UNCHANGED mp_others

\* crawl_multiple_pages(urls, max_concurrent, store_in_db, store_in_graph) up
\* to the await of get_crawler
CrawlMultipleCall ==
    /\ mp_pc = "idle"
    /\ \E n \in 0..MaxUrls, max_concurrent \in MaxConcurrentArguments,
          store_in_db \in BOOLEAN, store_in_graph \in BOOLEAN :
        /\ mp_args' = [urls |-> n, max_concurrent |-> max_concurrent,
                        store_in_db |-> store_in_db, store_in_graph |-> store_in_graph]
        /\ mp_limit' = EffectiveLimit(max_concurrent, MAX_CONCURRENT)
    /\ mp_pc' = "starting"
    /\ UNCHANGED <<MAX_CONCURRENT, semaphore, task_pc, results, mp_next, mp_entries,
                   mp_store_calls, mp_result>>
    /\ UNCHANGED <<mp_header, mp_overtaken>>
    /\ UNCHANGED mp_others

\* get_crawler raises, or asyncio.Semaphore(max_concurrent) raises ValueError
\* for a negative value: return "Error in batch crawl: ..."
CrawlMultipleStartFails ==
    /\ mp_pc = "starting"
    /\ mp_pc' = "done"
    /\ mp_result' = "error"
    /\ UNCHANGED <<MAX_CONCURRENT, mp_args, mp_limit, semaphore, task_pc, results, mp_next,
                   mp_entries, mp_store_calls>>
    /\ UNCHANGED <<mp_header, mp_overtaken>>
    /\ UNCHANGED mp_others

\* the semaphore is created and asyncio.gather starts one task per url
CrawlMultipleGather ==
    /\ mp_pc = "starting"
    /\ mp_limit >= 0
    /\ semaphore' = mp_limit
    /\ task_pc' = [i \in Tasks |-> "waiting"]
    /\ results' = [i \in Tasks |-> "none"]
    /\ mp_pc' = "gathering"
    /\ UNCHANGED <<MAX_CONCURRENT, mp_args, mp_limit, mp_next, mp_entries, mp_store_calls,
                   mp_result>>
    /\ UNCHANGED <<mp_header, mp_overtaken>>
    /\ UNCHANGED mp_others

\* async with semaphore: a permit is taken, crawler.arun is awaited
TaskAcquires(i) ==
    /\ mp_pc = "gathering"
    /\ task_pc[i] = "waiting"
    /\ semaphore > 0
    /\ semaphore' = semaphore - 1
    /\ task_pc' = [task_pc EXCEPT ![i] = "fetching"]
    /\ UNCHANGED <<MAX_CONCURRENT, mp_pc, mp_args, mp_limit, results, mp_next, mp_entries,
                   mp_store_calls, mp_result>>
    /\ UNCHANGED <<mp_header, mp_overtaken>>
    /\ UNCHANGED mp_others

\* crawler.arun returns (result.success or not) or raises; the task returns
\* its dict and the permit is given back
TaskFinishes(i) ==
    /\ mp_pc = "gathering"
    /\ task_pc[i] = "fetching"
    /\ \E outcome \in {"success", "failed", "raised"} :
           results' = [results EXCEPT ![i] = outcome]
    /\ semaphore' = semaphore + 1
    /\ task_pc' = [task_pc EXCEPT ![i] = "done"]
    /\ UNCHANGED <<MAX_CONCURRENT, mp_pc, mp_args, mp_limit, mp_next, mp_entries,
                   mp_store_calls, mp_result>>
    /\ mp_overtaken' = (mp_overtaken \/ \E j \in 1..(i - 1) : task_pc[j] # "done")
    /\ UNCHANGED mp_header
    /\ UNCHANGED mp_others

\* asyncio.gather returns: the header of the output is written
GatherReturns ==
    /\ mp_pc = "gathering"
    /\ \A i \in Tasks : task_pc[i] = "done"
    /\ mp_pc' = "building"
    /\ mp_next' = 1
    /\ UNCHANGED <<MAX_CONCURRENT, mp_args, mp_limit, semaphore, task_pc, results, mp_entries,
                   mp_store_calls, mp_result>>
    /\ mp_header' = [urls |-> mp_args.urls,
                     successful |-> Cardinality({i \in Tasks : results[i] = "success"}),
                     failed |-> Cardinality({i \in Tasks : results[i] # "success"})]
    /\ UNCHANGED mp_overtaken
    /\ UNCHANGED mp_others

\* one turn of the for loop over results, for a result whose success is
\* True: the content, then the stores asked for, unless one of them raises
BuildSuccessEntry ==
    /\ mp_pc = "building"
    /\ mp_next \in Tasks
    /\ results[mp_next] = "success"
    /\ \E vector \in OutcomesIf(mp_args.store_in_db) :
       \E graph \in OutcomesIf(mp_args.store_in_graph /\ vector # "raises") :
           /\ mp_store_calls' = mp_store_calls
                                    \cup (IF vector # "not called" THEN {<<mp_next, "vector">>} ELSE {})
                                    \cup (IF graph # "not called" THEN {<<mp_next, "graph">>} ELSE {})
           /\ IF "raises" \in {vector, graph}
              THEN /\ mp_pc' = "done"
                   /\ mp_result' = "error"
                   /\ UNCHANGED <<mp_entries, mp_next>>
              ELSE /\ mp_entries' = Append(mp_entries, [url |-> mp_next, body |-> "content"])
                   /\ mp_next' = mp_next + 1
                   /\ UNCHANGED <<mp_pc, mp_result>>
    /\ UNCHANGED <<MAX_CONCURRENT, mp_args, mp_limit, semaphore, task_pc, results>>
    /\ UNCHANGED <<mp_header, mp_overtaken>>
    /\ UNCHANGED mp_others

\* variant of BuildErrorEntry: the stores asked for are run for the failed url
BuildErrorEntryStoring ==
    /\ mp_pc = "building"
    /\ mp_next \in Tasks
    /\ results[mp_next] \in {"failed", "raised"}
    /\ mp_entries' = Append(mp_entries, [url |-> mp_next, body |-> "error"])
    /\ mp_store_calls' = mp_store_calls
                             \cup (IF mp_args.store_in_db THEN {<<mp_next, "vector">>} ELSE {})
                             \cup (IF mp_args.store_in_graph THEN {<<mp_next, "graph">>} ELSE {})
    /\ mp_next' = mp_next + 1
    /\ UNCHANGED <<MAX_CONCURRENT, mp_pc, mp_args, mp_limit, semaphore, task_pc, results,
                   mp_result>>
    /\ UNCHANGED <<mp_header, mp_overtaken>>
    /\ UNCHANGED mp_others

\* variant of BuildErrorEntry: nothing is written for the failed url
BuildErrorEntrySkipping ==
    /\ mp_pc = "building"
    /\ mp_next \in Tasks
    /\ results[mp_next] \in {"failed", "raised"}
    /\ mp_next' = mp_next + 1
    /\ UNCHANGED <<MAX_CONCURRENT, mp_pc, mp_args, mp_limit, semaphore, task_pc, results,
                   mp_entries, mp_store_calls, mp_result, mp_header, mp_overtaken>>
    /\ UNCHANGED mp_others

\* one turn of the for loop, for a result whose success is False: the error
BuildErrorEntry ==
    /\ mp_pc = "building"
    /\ mp_next \in Tasks
    /\ results[mp_next] \in {"failed", "raised"}
    /\ mp_entries' = Append(mp_entries, [url |-> mp_next, body |-> "error"])
    /\ mp_next' = mp_next + 1
    /\ UNCHANGED <<MAX_CONCURRENT, mp_pc, mp_args, mp_limit, semaphore, task_pc, results,
                   mp_store_calls, mp_result>>
    /\ UNCHANGED <<mp_header, mp_overtaken>>
    /\ UNCHANGED mp_others

\* return "".join(output_parts)
CrawlMultipleReturns ==
    /\ mp_pc = "building"
    /\ mp_next = mp_args.urls + 1
    /\ mp_pc' = "done"
    /\ mp_result' = "ok"
    /\ UNCHANGED <<MAX_CONCURRENT, mp_args, mp_limit, semaphore, task_pc, results, mp_next,
                   mp_entries, mp_store_calls>>
    /\ UNCHANGED <<mp_header, mp_overtaken>>
    /\ UNCHANGED mp_others

NextCrawlMultiple ==
    \/ LoadConcurrencyConfiguration
    \/ CrawlMultipleCall
    \/ CrawlMultipleStartFails
    \/ CrawlMultipleGather
    \/ \E i \in DOMAIN task_pc : TaskAcquires(i) \/ TaskFinishes(i)
    \/ GatherReturns
    \/ BuildSuccessEntry
    \/ BuildErrorEntry
    \/ CrawlMultipleReturns

-----------------------------------------------------------------------------
(* crawl_single_page *)

\* a part of the output, and the status line written for a store that returned
Part(name) == <<name>>
StatusLine(store, outcome) == <<store, outcome>>
ErrorCrawling == <<Part("Error crawling")>>

InitCrawlSingle ==
    /\ sp_pc = "idle"
    /\ sp_flags = NoStore
    /\ sp_calls = <<>>
    /\ sp_output = <<>>
    /\ sp_result = "none"

\* crawl_single_page(url, ..., store_in_db, store_in_graph) up to the await
\* of crawler.arun
CrawlSinglePageCall ==
    /\ sp_pc = "idle"
    /\ sp_flags' \in StoreFlags
    /\ sp_pc' = "fetching"
    /\ UNCHANGED <<sp_calls, sp_output, sp_result>>
    /\ UNCHANGED sp_others

\* crawler.arun raises: return "Error crawling {url}: {str(e)}"
SinglePageArunRaises ==
    /\ sp_pc = "fetching"
    /\ sp_pc' = "done"
    /\ sp_result' = "fetch_raised"
    /\ sp_output' = ErrorCrawling
    /\ UNCHANGED <<sp_flags, sp_calls>>
    /\ UNCHANGED sp_others

\* not result.success: return "Error crawling {url}: {result.error_message}"
SinglePageArunFails ==
    /\ sp_pc = "fetching"
    /\ sp_pc' = "done"
    /\ sp_result' = "fetch_error"
    /\ sp_output' = ErrorCrawling
    /\ UNCHANGED <<sp_flags, sp_calls>>
    /\ UNCHANGED sp_others

\* result.success: title, source and time, the stores asked for with their
\* status lines, the rule and the content. The links and images written
\* after the content are not part of sp_output here. A store that raises
\* ends the handler with "Error crawling {url}: {str(e)}".
SinglePageArunSucceeds ==
    /\ sp_pc = "fetching"
    /\ \E has_title \in BOOLEAN :
       \E vector \in OutcomesIf(sp_flags.store_in_db) :
       \E graph \in OutcomesIf(sp_flags.store_in_graph /\ vector # "raises") :
          /\ sp_calls' = (IF vector # "not called" THEN <<"vector">> ELSE <<>>)
                          \o (IF graph # "not called" THEN <<"graph">> ELSE <<>>)
          /\ IF "raises" \in {vector, graph}
             THEN /\ sp_output' = ErrorCrawling
                  /\ sp_result' = "store_raised"
             ELSE /\ sp_output' = (IF has_title THEN <<Part("title")>> ELSE <<>>)
                                   \o <<Part("source"), Part("crawled")>>
                                   \o (IF vector # "not called"
                                       THEN <<StatusLine("vector", vector)>> ELSE <<>>)
                                   \o (IF graph # "not called"
                                       THEN <<StatusLine("graph", graph)>> ELSE <<>>)
                                   \o <<Part("rule"), Part("content")>>
                  /\ sp_result' = "ok"
    /\ sp_pc' = "done"
    /\ UNCHANGED sp_flags
    /\ UNCHANGED sp_others

NextCrawlSingle ==
    \/ CrawlSinglePageCall
    \/ SinglePageArunRaises
    \/ SinglePageArunFails
    \/ SinglePageArunSucceeds

-----------------------------------------------------------------------------
(* truncate_content: the calls explored *)

MaxTruncateContent == 40
MaxTruncateLength == 4

\* the contents are the prefixes of a text whose characters tell their place
TruncateText == Tuple([i \in 1..MaxTruncateContent |-> DigitChars[(i % 10) + 1]])
TruncateContents == {SubSeq(TruncateText, 1, n) : n \in 0..MaxTruncateContent}
TruncateLengths == 0..MaxTruncateLength

InitTruncate ==
    /\ tc_pc = "idle"
    /\ tc_content = EmptyStr
    /\ tc_max_length = 0
    /\ tc_result = EmptyStr

\* truncate_content(content, max_length)
TruncateCall ==
    /\ tc_pc = "idle"
    /\ \E content \in TruncateContents, max_length \in TruncateLengths :
        /\ tc_content' = content
        /\ tc_max_length' = max_length
        /\ tc_result' = truncate_content(content, max_length)
    /\ tc_pc' = "returned"
    /\ UNCHANGED tc_others

\* the caller takes the result; the next call can be made
TruncateDone ==
    /\ tc_pc = "returned"
    /\ tc_pc' = "idle"
    /\ UNCHANGED <<tc_content, tc_max_length, tc_result>>
    /\ UNCHANGED tc_others

NextTruncate == TruncateCall \/ TruncateDone

-----------------------------------------------------------------------------
(* get_crawler and shutdown *)

MaxCallers == 3
MaxShutdowns == 1

Callers == 1..MaxCallers

InitGetCrawler ==
    /\ crawler = 0
    /\ crawler_lock = 0
    /\ gc_pc = [c \in Callers |-> "idle"]
    /\ gc_got = [c \in Callers |-> 0]
    /\ gc_made = 0
    /\ gc_started = {}
    /\ gc_epoch = [made |-> 0, starts |-> 0, shutdowns |-> 0]

\* a handler awaits get_crawler(): the caller asks for the lock
GetCrawlerCall(c) ==
    /\ gc_pc[c] = "idle"
    /\ gc_pc' = [gc_pc EXCEPT ![c] = "waiting"]
    /\ UNCHANGED <<crawler, crawler_lock, gc_got, gc_made, gc_started, gc_epoch>>
    /\ UNCHANGED gc_others

\* the caller gets the lock. _crawler is None: an AsyncWebCrawler is made,
\* assigned to _crawler, and start() is awaited with the lock held.
\* Otherwise _crawler is returned and the lock given back.
GetCrawlerEnter(c) ==
    /\ gc_pc[c] = "waiting"
    /\ crawler_lock = 0
    /\ IF crawler = 0
       THEN /\ crawler' = gc_made + 1
            /\ gc_made' = gc_made + 1
            /\ gc_epoch' = [gc_epoch EXCEPT !.made = @ + 1, !.starts = @ + 1]
            /\ crawler_lock' = c
            /\ gc_pc' = [gc_pc EXCEPT ![c] = "starting"]
            /\ UNCHANGED gc_got
       ELSE /\ gc_got' = [gc_got EXCEPT ![c] = crawler]
            /\ gc_pc' = [gc_pc EXCEPT ![c] = "returned"]
            /\ UNCHANGED <<crawler, crawler_lock, gc_made, gc_epoch>>
    /\ UNCHANGED gc_started
    /\ UNCHANGED gc_others

\* start() completes: _crawler is returned and the lock given back
StartCompletes(c) ==
    /\ gc_pc[c] = "starting"
    /\ gc_started' = gc_started \cup {crawler}
    /\ gc_got' = [gc_got EXCEPT ![c] = crawler]
    /\ gc_pc' = [gc_pc EXCEPT ![c] = "returned"]
    /\ crawler_lock' = 0
    /\ UNCHANGED <<crawler, gc_made, gc_epoch>>
    /\ UNCHANGED gc_others

\* start() raises: the exception leaves get_crawler through the async with,
\* which gives the lock back; _crawler keeps the instance
StartRaises(c) ==
    /\ gc_pc[c] = "starting"
    /\ gc_pc' = [gc_pc EXCEPT ![c] = "raised"]
    /\ crawler_lock' = 0
    /\ UNCHANGED <<crawler, gc_got, gc_made, gc_started, gc_epoch>>
    /\ UNCHANGED gc_others

\* shutdown(), run when no call of get_crawler is under way: _crawler is
\* closed and set to None; the callers can call again
Shutdown ==
    /\ gc_epoch.shutdowns < MaxShutdowns
    /\ \A c \in Callers : gc_pc[c] \notin {"waiting", "starting"}
    /\ crawler' = 0
    /\ gc_pc' = [c \in Callers |-> "idle"]
    /\ gc_got' = [c \in Callers |-> 0]
    /\ gc_epoch' = [made |-> 0, starts |-> 0, shutdowns |-> gc_epoch.shutdowns + 1]
    /\ UNCHANGED <<crawler_lock, gc_made, gc_started>>
    /\ UNCHANGED gc_others

NextGetCrawler ==
    \/ \E c \in Callers :
          GetCrawlerCall(c) \/ GetCrawlerEnter(c) \/ StartCompletes(c) \/ StartRaises(c)
    \/ Shutdown

-----------------------------------------------------------------------------
(* the server: one of the crawl tools is called *)

ToolNames == {"crawl_single_page", "crawl_multiple_pages", "smart_crawl"}

InitTools == tool = "none"

CallTool ==
    /\ tool = "none"
    /\ tool' \in ToolNames
    /\ UNCHANGED tool_others

NextTools ==
    \/ CallTool
    \/ tool = "crawl_single_page" /\ NextCrawlSingle
    \/ tool = "crawl_multiple_pages" /\ NextCrawlMultiple
    \/ tool = "smart_crawl" /\ NextSmartCrawl

-----------------------------------------------------------------------------

Init == InitSmartCrawl /\ InitExtract /\ InitInvocations /\ InitGraphStore /\ InitCrawlMultiple
        /\ InitCrawlSingle /\ InitTools /\ InitTruncate /\ InitGetCrawler

SpecSmartCrawl == Init /\ [][NextSmartCrawl]_vars

SpecExtract == Init /\ [][NextExtract]_vars

SpecInvocations == Init /\ [][NextInvocations]_vars

SpecGraphStore == Init /\ [][NextGraphStore]_vars

SpecCrawlMultiple == Init /\ [][NextCrawlMultiple]_vars

\* crawl_multiple_pages under the event loop: a step of the handler that can
\* run does run, every fetch returns or raises, and the semaphore wakes its
\* waiters in turn, so a task that can take a permit again and again takes one
SpecCrawlMultipleFair ==
    /\ Init
    /\ [][NextCrawlMultiple]_vars
    /\ WF_vars(CrawlMultipleStartFails \/ CrawlMultipleGather)
    /\ \A i \in 1..MaxUrls : SF_vars(i \in DOMAIN task_pc /\ TaskAcquires(i))
    /\ \A i \in 1..MaxUrls : WF_vars(i \in DOMAIN task_pc /\ TaskFinishes(i))
    /\ WF_vars(GatherReturns)
    /\ WF_vars(BuildSuccessEntry \/ BuildErrorEntry)
    /\ WF_vars(CrawlMultipleReturns)

SpecTools == Init /\ [][NextTools]_vars

SpecTruncate == Init /\ [][NextTruncate]_vars

SpecGetCrawler == Init /\ [][NextGetCrawler]_vars

\* extract_entities_and_relations is called by a caller of its own or by
\* store_in_graph_db
NextExtractOrStore ==
    \/ GRAPH_RAG_AVAILABLE = "unset" /\ NextExtract
    \/ ex_pc = "idle" /\ NextGraphStore

SpecExtractOrStore == Init /\ [][NextExtractOrStore]_vars

Next == NextSmartCrawl \/ NextExtract \/ NextInvocations \/ NextGraphStore \/ NextCrawlMultiple
        \/ NextCrawlSingle \/ CallTool \/ NextTruncate \/ NextGetCrawler

Spec == Init /\ [][Next]_vars

-----------------------------------------------------------------------------
(* Properties of smart_crawl's relevance scorer *)

ScoredOk == sc_pc = "done" /\ sc_result = "ok"

InputParagraphs == StrSplit(sc_content, ParagraphSeparator)
RankedTexts == [i \in DOMAIN scored_paragraphs |-> scored_paragraphs[i][2]]
RankedScores == {scored_paragraphs[i][1] : i \in DOMAIN scored_paragraphs}
TrimmedLength(para) == Len(StrStrip(para))

\* the distinct lower-cased, whitespace-separated terms of the query
DistinctQueryTerms == Range(StrSplitWhitespace(StrLower(sc_query)))
DistinctTermsIn(para) ==
    Cardinality({t \in DistinctQueryTerms : StrContains(t, StrLower(para))})
QueryTokensIn(para) ==
    LET tokens == StrSplitWhitespace(StrLower(sc_query))
    IN Cardinality({k \in DOMAIN tokens : StrContains(tokens[k], StrLower(para))})

\* C1: the score of every ranked paragraph is the number of distinct query terms
\* that occur in the lower-cased paragraph as a substring.
C1_ScoreCountsDistinctTerms ==
    ScoredOk =>
        \A i \in DOMAIN scored_paragraphs :
            scored_paragraphs[i][1] = DistinctTermsIn(scored_paragraphs[i][2])

\* what the code computes instead: one point per query token, repeated tokens included
C1_ScoreCountsQueryTokens ==
    ScoredOk =>
        \A i \in DOMAIN scored_paragraphs :
            scored_paragraphs[i][1] = QueryTokensIn(scored_paragraphs[i][2])

C1_RepeatedTermScored ==
    /\ ScoredOk
    /\ \E i \in DOMAIN scored_paragraphs :
           scored_paragraphs[i][1] > DistinctTermsIn(scored_paragraphs[i][2])

\* C2: the ranked list is ordered by non-increasing score, and the paragraphs of
\* each score appear in the order they have in the content.
C2_SortedAndStable ==
    ScoredOk =>
        /\ \A i, j \in DOMAIN scored_paragraphs :
               i < j => scored_paragraphs[i][1] >= scored_paragraphs[j][1]
        /\ \A score \in RankedScores :
               LET ranked == SelectSeq(scored_paragraphs, LAMBDA e : e[1] = score)
               IN [i \in DOMAIN ranked |-> ranked[i][2]]
                  = SelectSeq(InputParagraphs,
                              LAMBDA p : \E i \in DOMAIN scored_paragraphs :
                                             scored_paragraphs[i] = <<score, p>>)

\* two different paragraphs tie, and the sort moved a paragraph forward
C2_TieAndReorder ==
    /\ ScoredOk
    /\ \E i, j \in DOMAIN scored_paragraphs :
           /\ i < j
           /\ scored_paragraphs[i][1] = scored_paragraphs[j][1]
           /\ scored_paragraphs[i][2] # scored_paragraphs[j][2]
    /\ RankedTexts # SelectSeq(InputParagraphs, LAMBDA p : p \in Range(RankedTexts))

\* C3: no paragraph whose trimmed length is below 50 is ranked, whatever it
\* matches; a matching paragraph of trimmed length exactly 50 is ranked.
C3_ShortParagraphsExcluded ==
    ScoredOk =>
        /\ \A i \in DOMAIN scored_paragraphs :
               TrimmedLength(scored_paragraphs[i][2]) >= MinParagraphLength
        /\ \A p \in Range(InputParagraphs) :
               TrimmedLength(p) < MinParagraphLength => p \notin Range(RankedTexts)
        /\ \A p \in Range(InputParagraphs) :
               (TrimmedLength(p) = MinParagraphLength /\ DistinctTermsIn(p) > 0)
                   => p \in Range(RankedTexts)

\* a paragraph one character short that holds every query term is left out,
\* while a paragraph of exactly 50 trimmed characters is ranked
C3_ThresholdCase ==
    /\ ScoredOk
    /\ DistinctQueryTerms # {}
    /\ \E p \in Range(InputParagraphs) :
           /\ TrimmedLength(p) = MinParagraphLength - 1
           /\ DistinctTermsIn(p) = Cardinality(DistinctQueryTerms)
           /\ p \notin Range(RankedTexts)
    /\ \E i \in DOMAIN scored_paragraphs :
           TrimmedLength(scored_paragraphs[i][2]) = MinParagraphLength

\* C4: every ranked paragraph has score > 0; with a blank query, an empty
\* content, or no query term anywhere in the content, a successful fetch ends
\* with an empty ranked list and the scoring raises no error (the only error
\* left is that of a store the caller asked for).
C4_OnlyPositiveScores ==
    /\ ScoredOk => \A i \in DOMAIN scored_paragraphs : scored_paragraphs[i][1] > 0
    /\ (/\ sc_pc = "done"
        /\ sc_result \notin {"fetch_error", "exception"}
        /\ \/ \A i \in DOMAIN sc_query : sc_query[i] \in Whitespace
           \/ sc_content = EmptyStr
           \/ \A t \in DistinctQueryTerms : ~StrContains(t, StrLower(sc_content)))
       => /\ scored_paragraphs = <<>>
          /\ "score" \in sc_calls
          /\ sc_result \in {"ok", "store_raised"}
          /\ sc_flags = NoStore => sc_result = "ok"

\* a paragraph long enough to be scored matches none of the query's terms
C4_NothingMatches ==
    /\ ScoredOk
    /\ DistinctQueryTerms # {}
    /\ \E p \in Range(InputParagraphs) : TrimmedLength(p) >= MinParagraphLength
    /\ scored_paragraphs = <<>>

TopRankedWritten ==
    /\ Len(output_parts) = MinOf(TopParagraphs, Len(scored_paragraphs))
    /\ \A i \in DOMAIN output_parts : output_parts[i] = scored_paragraphs[i][2] \o <<NL, NL>>

\* C5: after a successful fetch the body is the first min(20, k) ranked
\* paragraphs, each followed by a blank line, when the ranked list is not
\* empty, and otherwise the notice followed by the content capped at 30000
\* characters.
C5_BodyIsTopOrCappedContent ==
    ScoredOk =>
        IF scored_paragraphs # <<>>
        THEN TopRankedWritten
        ELSE /\ Len(output_parts) = 2
             /\ output_parts[1] = FallbackNotice
             /\ output_parts[2] = SubSeq(sc_content, 1, MinOf(Len(sc_content), FallbackMaxLength))

\* C5, as the code has it: a content longer than 30000 characters is cut to
\* its first 30000 characters and the truncation marker is appended to them.
C5_BodyIsTopOrTruncatedContent ==
    ScoredOk =>
        IF scored_paragraphs # <<>>
        THEN TopRankedWritten
        ELSE /\ Len(output_parts) = 2
             /\ output_parts[1] = FallbackNotice
             /\ IF Len(sc_content) <= FallbackMaxLength
                THEN output_parts[2] = sc_content
                ELSE output_parts[2] = SubSeq(sc_content, 1, FallbackMaxLength)
                                       \o Chars("\n\n[Content truncated for length...]")

\* more than 20 paragraphs are ranked and the body holds 20
C5_MoreThanTopRanked ==
    /\ ScoredOk
    /\ Len(scored_paragraphs) > TopParagraphs
    /\ Len(output_parts) = TopParagraphs

\* the fallback is taken on a page longer than its cap
C5_FallbackTruncated ==
    /\ ScoredOk
    /\ scored_paragraphs = <<>>
    /\ Len(sc_content) > FallbackMaxLength

ExampleShort == Chars("Short.")
ExamplePricing == Chars("Pricing starts at $10 per month for basic plans.")
ExampleUnrelated ==
    Chars("Unrelated filler text here that is long enough to pass the length filter.")
ExampleScored == ScoredOk /\ sc_content = ExampleContent /\ sc_query = Chars("pricing")

\* C6: on the example content with query "pricing" the pricing paragraph is
\* ranked, above the unrelated paragraph, and "Short." is not ranked.
C6_ExampleRanksPricing ==
    ExampleScored =>
        /\ ExamplePricing \in Range(RankedTexts)
        /\ \A i, j \in DOMAIN RankedTexts :
               (RankedTexts[i] = ExamplePricing /\ RankedTexts[j] = ExampleUnrelated) => i < j
        /\ ExampleShort \notin Range(RankedTexts)

\* C6, as the code has it: the pricing paragraph has 48 characters and is
\* filtered out with "Short."; the unrelated paragraph scores 0; nothing is ranked.
C6_ExampleRanksNothing ==
    ExampleScored =>
        /\ scored_paragraphs = <<>>
        /\ TrimmedLength(ExamplePricing) < MinParagraphLength
        /\ ExampleShort \notin Range(RankedTexts)

C6_ExampleReached == ExampleScored /\ InputParagraphs = <<ExampleShort, ExamplePricing, ExampleUnrelated>>

-----------------------------------------------------------------------------
(* Properties of extract_entities_and_relations *)

Returned == ex_pc = "returned"

EntitiesOfType(type) == {i \in DOMAIN entities : entities[i].type = type}
RelationsOfKind(kind) == {j \in DOMAIN relations : relations[j].relation = kind}

\* the netloc Python's urlparse gives for the urls explored that it accepts
NetlocTable ==
    << <<Chars("https://docs.example.com/auth"), Chars("docs.example.com")>>,
       <<Chars("HTTP://Docs.Example.com:80/a?b"), Chars("Docs.Example.com:80")>>,
       <<EmptyStr, EmptyStr>>,
       <<Chars("/relative/path"), EmptyStr>> >>
HostOf(url) == NetlocTable[CHOOSE i \in DOMAIN NetlocTable : NetlocTable[i][1] = url][2]

\* C7: the entities hold exactly one WebPage, keyed by the url given, and
\* exactly one Domain, named by the url's host; with a host that is not empty
\* the relations hold exactly one BELONGS_TO, from that page to that domain.
C7_OnePageOneDomain ==
    Returned =>
        /\ \E i \in DOMAIN entities :
               /\ EntitiesOfType("WebPage") = {i}
               /\ entities[i].url = ex_url
        /\ \E i \in DOMAIN entities :
               /\ EntitiesOfType("Domain") = {i}
               /\ entities[i].name = HostOf(ex_url)
        /\ HostOf(ex_url) # EmptyStr =>
               \E j \in DOMAIN relations :
                   /\ RelationsOfKind("BELONGS_TO") = {j}
                   /\ relations[j] = Relation("WebPage", ex_url, "Domain", HostOf(ex_url), "BELONGS_TO")

\* a page with a host whose content links to another site
C7_PageWithLink ==
    /\ Returned
    /\ HostOf(ex_url) # EmptyStr
    /\ RelationsOfKind("LINKS_TO") # {}

\* C8: for a url without a host the WebPage entity has the empty domain and no
\* BELONGS_TO relation is returned.
C8_NoHostNoBelongsTo ==
    (Returned /\ HostOf(ex_url) = EmptyStr) =>
        /\ \E i \in EntitiesOfType("WebPage") : entities[i].domain = EmptyStr
        /\ RelationsOfKind("BELONGS_TO") = {}

\* what the code returns for such a url: a BELONGS_TO to the Domain named ""
C8_NoHostBelongsToEmptyDomain ==
    (Returned /\ HostOf(ex_url) = EmptyStr) =>
        /\ \E i \in EntitiesOfType("WebPage") : entities[i].domain = EmptyStr
        /\ \E j \in DOMAIN relations :
               /\ RelationsOfKind("BELONGS_TO") = {j}
               /\ relations[j].to_id = EmptyStr

\* C9: the call never raises, whatever the url, the title and the content.
C9_NeverRaises == ex_pc # "raised"

\* a url with "[" and no "]" in its host
C9_UnbalancedBracket ==
    /\ ex_pc = "raised"
    /\ "[" \in Range(ex_url)
    /\ "]" \notin Range(ex_url)

\* keyword occurs in content as a whole word, in any letter case
OccursAsWholeWord(keyword, content) ==
    \E at \in 1..(Len(content) - Len(keyword) + 1) :
        /\ \A k \in DOMAIN keyword : content[at + k - 1] \in {keyword[k], UpperChar(keyword[k])}
        /\ at = 1 \/ content[at - 1] \notin WordChars
        /\ at + Len(keyword) > Len(content) \/ content[at + Len(keyword)] \notin WordChars

TitleCased(keyword) == <<UpperChar(keyword[1])>> \o Tail(keyword)

ExpectedTopics ==
    {TitleCased(TopicKeywords[k]) :
        k \in {h \in DOMAIN TopicKeywords : OccursAsWholeWord(TopicKeywords[h], ex_content)}}

\* C10: the Topic entities are exactly one per vocabulary keyword that occurs
\* in the content as a whole word in any letter case, named by the title-cased
\* keyword, and each has exactly one COVERS_TOPIC relation from the page.
C10_TopicsWholeWordDeduplicated ==
    Returned =>
        /\ {entities[i].name : i \in EntitiesOfType("Topic")} = ExpectedTopics
        /\ \A i, j \in EntitiesOfType("Topic") : entities[i].name = entities[j].name => i = j
        /\ \A i \in EntitiesOfType("Topic") :
               Cardinality({j \in RelationsOfKind("COVERS_TOPIC") :
                               relations[j] = Relation("WebPage", ex_url, "Topic",
                                                       entities[i].name, "COVERS_TOPIC")}) = 1
        /\ Cardinality(RelationsOfKind("COVERS_TOPIC")) = Cardinality(EntitiesOfType("Topic"))

\* both letter cases of a keyword, and the keyword inside a longer word, in one content
C10_BothCasesOneTopic ==
    /\ Returned
    /\ ex_content = Chars("Authentication authentication,")
    /\ Cardinality(EntitiesOfType("Topic")) = 1

C10_InsideLongerWord ==
    /\ Returned
    /\ ex_content = Chars("oauthentication")
    /\ EntitiesOfType("Topic") = {}

\* the absolute http/https URLs of the content in document order: in the
\* contents explored every URL is a whole white-space-separated token
DocumentLinks ==
    SelectSeq(StrSplitWhitespace(ex_content),
              LAMBDA token : \/ (StrMatchesAt(Chars("https://"), token, 1) /\ Len(token) > 8)
                             \/ (StrMatchesAt(Chars("http://"), token, 1) /\ Len(token) > 7))

\* the netloc Python's urlparse gives for the links explored
LinkHostTable ==
    << <<Chars("https://api.other.com/ref"), Chars("api.other.com")>>,
       <<Chars("https://docs.example.com/x"), Chars("docs.example.com")>>,
       <<Chars("http://b.io/r"), Chars("b.io")>> >>
LinkHost(link) == LinkHostTable[CHOOSE i \in DOMAIN LinkHostTable : LinkHostTable[i][1] = link][2]

ExaminedLinks == SubSeq(DocumentLinks, 1, MinOf(Len(DocumentLinks), 20))
LinksToRelations == SelectSeq(relations, LAMBDA r : r.relation = "LINKS_TO")

\* C11: at most the first 20 URL matches of the content are examined, in
\* document order; the LINKS_TO relations are, in that order, WebPage(url) ->
\* WebPage(link) for exactly the examined links whose host is not empty and
\* differs from the source host, so there are at most 20 of them and none has a
\* target on the source host.
C11_FirstTwentyCrossDomainLinks ==
    Returned =>
        LET expected == SelectSeq(ExaminedLinks,
                                  LAMBDA link : LinkHost(link) # EmptyStr
                                                /\ LinkHost(link) # HostOf(ex_url))
        IN /\ Len(LinksToRelations) <= 20
           /\ LinksToRelations
                  = [i \in DOMAIN expected |->
                        Relation("WebPage", ex_url, "WebPage", expected[i], "LINKS_TO")]
           /\ \A i \in DOMAIN LinksToRelations :
                  LinkHost(LinksToRelations[i].to_id) # HostOf(ex_url)

\* the 21st match leads to another site and is not examined, while earlier
\* matches are emitted and matches on the source host are dropped
C11_TwentyFirstLinkDropped ==
    /\ Returned
    /\ Len(DocumentLinks) > 20
    /\ LinkHost(DocumentLinks[21]) \notin {EmptyStr, HostOf(ex_url)}
    /\ \E i \in 1..20 : LinkHost(DocumentLinks[i]) = HostOf(ex_url)
    /\ LinksToRelations # <<>>
    /\ Len(LinksToRelations) < Len(SelectSeq(DocumentLinks,
                                             LAMBDA link : LinkHost(link) # HostOf(ex_url)))

ExampleUrl == Chars("https://docs.example.com/auth")
ExampleLink == Chars("https://api.other.com/ref")
ExampleExtracted ==
    /\ Returned
    /\ ex_url = ExampleUrl
    /\ ex_title = Chars("Auth Guide")
    /\ ex_content = ExampleExtractContent

\* the entities by kind and key, the relations as they are
EntityKeys ==
    {<<entities[i].type, IF entities[i].type = "WebPage" THEN entities[i].url ELSE entities[i].name>> :
        i \in DOMAIN entities}
RelationSet == Range(relations)

\* C12: the example call yields exactly the entities WebPage(url),
\* Domain(docs.example.com), Topic(Authentication) and exactly the relations
\* BELONGS_TO, COVERS_TOPIC to Authentication and LINKS_TO to the link, and no
\* other Topic entity or relation.
C12_ExampleOneTopic ==
    ExampleExtracted =>
        /\ EntityKeys = { <<"WebPage", ExampleUrl>>,
                          <<"Domain", Chars("docs.example.com")>>,
                          <<"Topic", Chars("Authentication")>> }
        /\ Len(entities) = 3
        /\ RelationSet
               = { Relation("WebPage", ExampleUrl, "Domain", Chars("docs.example.com"), "BELONGS_TO"),
                   Relation("WebPage", ExampleUrl, "Topic", Chars("Authentication"), "COVERS_TOPIC"),
                   Relation("WebPage", ExampleUrl, "WebPage", ExampleLink, "LINKS_TO") }
        /\ Len(relations) = 3

\* C12, as the code has it: "api" in the link's host is a whole word of the
\* vocabulary too, so there is a second Topic, Api, with its COVERS_TOPIC.
C12_ExampleTwoTopics ==
    ExampleExtracted =>
        /\ EntityKeys = { <<"WebPage", ExampleUrl>>,
                          <<"Domain", Chars("docs.example.com")>>,
                          <<"Topic", Chars("Authentication")>>,
                          <<"Topic", Chars("Api")>> }
        /\ Len(entities) = 4
        /\ RelationSet
               = { Relation("WebPage", ExampleUrl, "Domain", Chars("docs.example.com"), "BELONGS_TO"),
                   Relation("WebPage", ExampleUrl, "Topic", Chars("Authentication"), "COVERS_TOPIC"),
                   Relation("WebPage", ExampleUrl, "Topic", Chars("Api"), "COVERS_TOPIC"),
                   Relation("WebPage", ExampleUrl, "WebPage", ExampleLink, "LINKS_TO") }
        /\ Len(relations) = 4

\* the example call returned, the Topic entities in either order
C12_ExampleReached ==
    /\ ExampleExtracted
    /\ \E i \in DOMAIN entities : entities[i] = [type |-> "Topic", name |-> Chars("Api")]
    /\ entities[Len(entities)].name = Chars("Authentication")

HasEntity(type, key) ==
    \E i \in DOMAIN entities :
        /\ entities[i].type = type
        /\ key = IF type = "WebPage" THEN entities[i].url ELSE entities[i].name

\* C14: every relation starts at the WebPage entity of the entity list; a
\* BELONGS_TO ends at a Domain entity of the list, a COVERS_TOPIC at a Topic
\* entity of the list, a LINKS_TO at a WebPage key; there is no other kind of
\* relation or endpoint.
C14_RelationsReferenceEntities ==
    Returned =>
        \A j \in DOMAIN relations :
            LET r == relations[j]
            IN /\ r.from_type = "WebPage"
               /\ HasEntity("WebPage", r.from_id)
               /\ r.relation \in {"BELONGS_TO", "COVERS_TOPIC", "LINKS_TO"}
               /\ r.relation = "BELONGS_TO" => (r.to_type = "Domain" /\ HasEntity("Domain", r.to_id))
               /\ r.relation = "COVERS_TOPIC" => (r.to_type = "Topic" /\ HasEntity("Topic", r.to_id))
               /\ r.relation = "LINKS_TO" => r.to_type = "WebPage"

\* a result with the three kinds of relation, whose link target is no entity of the list
C14_AllKindsOfRelation ==
    /\ Returned
    /\ \A kind \in {"BELONGS_TO", "COVERS_TOPIC", "LINKS_TO"} : RelationsOfKind(kind) # {}
    /\ \E j \in RelationsOfKind("LINKS_TO") : ~HasEntity("WebPage", relations[j].to_id)
    /\ \E j \in RelationsOfKind("COVERS_TOPIC") : relations[j].to_id = Chars("Api")

-----------------------------------------------------------------------------
(* Properties of concurrent and repeated invocations *)

ReturnedExtract(i) == inv_pc[i] = "returned" /\ inv_args[i].kind = "extract"
ReturnedScore(i) == inv_pc[i] = "returned" /\ inv_args[i].kind = "score"

WithoutTime(entity) ==
    IF entity.type = "WebPage" THEN [entity EXCEPT !.crawled_at = 0] ELSE entity

\* C13: two calls of the extractor with the same url, title and content, at
\* any two times, return the same set of entities, every attribute and the
\* WebPage's crawled_at included, and the same set of relations.
C13_SameInputsSameSets ==
    \A i, j \in Invocations :
        (ReturnedExtract(i) /\ ReturnedExtract(j) /\ inv_args[i] = inv_args[j])
            => /\ Range(inv_result[i][1]) = Range(inv_result[j][1])
               /\ Range(inv_result[i][2]) = Range(inv_result[j][2])

\* what the code gives: the same sets once crawled_at is left out
C13_SameInputsSameSetsApartFromTime ==
    \A i, j \in Invocations :
        (ReturnedExtract(i) /\ ReturnedExtract(j) /\ inv_args[i] = inv_args[j])
            => /\ {WithoutTime(e) : e \in Range(inv_result[i][1])}
                      = {WithoutTime(e) : e \in Range(inv_result[j][1])}
               /\ Range(inv_result[i][2]) = Range(inv_result[j][2])

\* the same call made at two different times
C13_CalledAtTwoTimes ==
    /\ ReturnedExtract(1) /\ ReturnedExtract(2)
    /\ inv_args[1] = inv_args[2]
    /\ inv_result[1][1][1].crawled_at # inv_result[2][1][1].crawled_at

\* C17: whatever the interleaving of concurrent invocations, each invocation
\* returns what it returns when run alone on its arguments: the extractor the
\* lists of one uninterrupted call (for the time it read and the order its set
\* was iterated in), the scorer the ranked list of its own page and query.
C17_ResultAsIfAlone ==
    \A i \in Invocations :
        /\ ReturnedExtract(i) =>
               LET a == inv_args[i]
                   domain == UrlParseNetloc(a.url).netloc
                   links == LinkFindAll(a.content, 1)
               IN \E now \in 0..clock, topics \in IterationOrders(TopicsFound(a.content)) :
                      inv_result[i] = << ExtractEntities(a.url, a.title, domain, now, topics, links),
                                         ExtractRelations(a.url, domain, topics, links) >>
        /\ ReturnedScore(i) =>
               inv_result[i] = SortByScore(ScoreParagraphs(StrSplit(inv_args[i].content, ParagraphSeparator),
                                                           QueryTerms(inv_args[i].query)))

\* two invocations with different arguments ran interleaved and both returned
C17_InterleavedAndReturned ==
    /\ inv_overlapped
    /\ \A i \in Invocations : inv_pc[i] = "returned"
    /\ inv_args[1] # inv_args[2]
    /\ inv_result[1] # inv_result[2]
    /\ \E i \in Invocations : ReturnedExtract(i)
    /\ \E i \in Invocations : ReturnedScore(i) /\ Len(inv_result[i]) > 1

-----------------------------------------------------------------------------
(* Properties of the graph store *)

GraphNodeKeys == {NodeKey(graph_nodes[i]) : i \in DOMAIN graph_nodes}
GraphEdgeKeys ==
    {<<graph_edges[k].kind, NodeKey(graph_nodes[graph_edges[k].from]),
       NodeKey(graph_nodes[graph_edges[k].to])>> : k \in DOMAIN graph_edges}

OneNodePerKey ==
    \A i, j \in DOMAIN graph_nodes : NodeKey(graph_nodes[i]) = NodeKey(graph_nodes[j]) => i = j
OneEdgePerKey ==
    \A k, l \in DOMAIN graph_edges : graph_edges[k] = graph_edges[l] => k = l

Extractable(args) == StoreNetloc[args[1]].ok

\* the nodes and the edges, by key, that a complete run for args merges
NodeKeysOf(args) ==
    LET topics == StoreTopics[args[3]]
        kept == CrossDomainLinks(StoreNetloc[args[1]].netloc, StoreLinks[args[3]])
    IN {<<"WebPage", args[1]>>, <<"Domain", StoreNetloc[args[1]].netloc>>}
       \cup {<<"Topic", StrTitle(t)>> : t \in topics}
       \cup {<<"WebPage", kept[k]>> : k \in DOMAIN kept}
EdgeKeysOf(args) ==
    LET page == <<"WebPage", args[1]>>
        topics == StoreTopics[args[3]]
        kept == CrossDomainLinks(StoreNetloc[args[1]].netloc, StoreLinks[args[3]])
    IN {<<"BELONGS_TO", page, <<"Domain", StoreNetloc[args[1]].netloc>>>>}
       \cup {<<"COVERS_TOPIC", page, <<"Topic", StrTitle(t)>>>> : t \in topics}
       \cup {<<"LINKS_TO", page, <<"WebPage", kept[k]>>>> : k \in DOMAIN kept}

\* the store is as a complete run for args leaves it, by key
HoldsRunOf(args) ==
    /\ Extractable(args)
    /\ NodeKeysOf(args) \subseteq GraphNodeKeys
    /\ EdgeKeysOf(args) \subseteq GraphEdgeKeys

\* C15: the store never holds two nodes of one (kind, key) nor two edges of one
\* (kind, from, to); a run that returns True leaves the nodes and edges of its
\* page in the store, and any further run for the same (url, title, content)
\* changes neither the set of node keys nor the set of edge keys.
C15_StoreIdempotent ==
    /\ [](OneNodePerKey /\ OneEdgePerKey)
    /\ [](gs_last.ok => HoldsRunOf(gs_last.args))
    /\ [][(gs_calls' # gs_calls /\ (HoldsRunOf(gs_last'.args) \/ ~Extractable(gs_last'.args)))
              => (GraphNodeKeys' = GraphNodeKeys /\ GraphEdgeKeys' = GraphEdgeKeys)]_vars

\* the same page was stored twice in a row, both runs returned True, and a
\* run at the later time set the page's properties
C15_StoredTwice ==
    /\ gs_last.ok
    /\ gs_last.again
    /\ Cardinality(GraphEdgeKeys) >= 4
    /\ \E i \in DOMAIN graph_nodes : graph_nodes[i].props # <<>> /\ graph_nodes[i].props[3] = 1

-----------------------------------------------------------------------------
(* crawl_multiple_pages: the fetches in flight *)

DuringCrawlMultiple == mp_pc \in {"starting", "gathering", "building"}

\* C16, as stated: during crawl_multiple_pages the number of crawler.arun
\* calls in flight is at most min(max_concurrent, MAX_CONCURRENT), whatever
\* the argument
C16_InFlightAtMostMin ==
    DuringCrawlMultiple => InFlight <= MinOf(mp_args.max_concurrent, MAX_CONCURRENT)

\* C16, amended: during crawl_multiple_pages the number of crawler.arun calls
\* in flight is at most min(max_concurrent, MAX_CONCURRENT) when that minimum
\* is positive and is zero otherwise; an argument above MAX_CONCURRENT leaves
\* the bound at MAX_CONCURRENT
C16_InFlightAtMostPositiveMin ==
    DuringCrawlMultiple =>
        /\ InFlight <= MAX_CONCURRENT
        /\ IF MinOf(mp_args.max_concurrent, MAX_CONCURRENT) > 0
           THEN InFlight <= MinOf(mp_args.max_concurrent, MAX_CONCURRENT)
           ELSE InFlight = 0

\* more urls than MAX_CONCURRENT and an argument above it: MAX_CONCURRENT
\* fetches are in flight and a task waits for a permit
C16_CeilingReached ==
    /\ mp_pc = "gathering"
    /\ mp_args.max_concurrent > MAX_CONCURRENT
    /\ mp_args.urls > MAX_CONCURRENT
    /\ InFlight = MAX_CONCURRENT
    /\ \E i \in Tasks : task_pc[i] = "waiting"

-----------------------------------------------------------------------------
(* the three crawl tools: a fetch that fails *)

FailedFetches == {i \in DOMAIN results : results[i] \in {"failed", "raised"}}
EntriesOf(i) == {k \in DOMAIN mp_entries : mp_entries[k].url = i}

\* for a failed fetch crawl_single_page and smart_crawl run neither the
\* scoring loop nor a store and return the error
SinglePageFailedFetchSkipsCore ==
    sp_result \in {"fetch_error", "fetch_raised"} =>
        sp_calls = <<>> /\ sp_output = ErrorCrawling

SmartCrawlFailedFetchSkipsCore ==
    sc_result \in {"fetch_error", "exception"} =>
        sc_calls = {} /\ scored_paragraphs = <<>> /\ output_parts = <<>>

\* crawl_multiple_pages runs no store for the url of a failed fetch and
\* writes no content for it
MultipleFailedFetchSkipsCore ==
    \A i \in FailedFetches :
        /\ \A store \in {"vector", "graph"} : <<i, store>> \notin mp_store_calls
        /\ \A k \in EntriesOf(i) : mp_entries[k].body = "error"

-----------------------------------------------------------------------------
(* crawl_single_page: storage is asked for by the flags *)

CallsOf(store) == Cardinality({k \in DOMAIN sp_calls : sp_calls[k] = store})
HasStatusLine(store) == \E k \in DOMAIN sp_output : Head(sp_output[k]) = store
Fetched == sp_result \in {"ok", "store_raised"}

-----------------------------------------------------------------------------
(* truncate_content *)

MarkerText == Chars("[Content truncated for length...]")
Truncated == tc_pc = "returned" /\ Len(tc_content) > tc_max_length
StartsWithCut ==
    /\ Len(tc_result) >= tc_max_length
    /\ SubSeq(tc_result, 1, tc_max_length) = SubSeq(tc_content, 1, tc_max_length)

\* C20, as stated: truncate_content returns content unchanged when
\* len(content) <= max_length; when len(content) > max_length it returns a
\* string shorter than content that starts with the first max_length
\* characters of content and contains the marker
C20_TruncatedIsShorter ==
    /\ (tc_pc = "returned" /\ Len(tc_content) <= tc_max_length) => tc_result = tc_content
    /\ Truncated =>
        /\ Len(tc_result) < Len(tc_content)
        /\ StartsWithCut
        /\ StrContains(MarkerText, tc_result)

\* C20, amended: truncate_content returns content unchanged when
\* len(content) <= max_length; when len(content) > max_length it returns the
\* first max_length characters of content followed by the 35 characters of
\* the marker, a string of max_length + 35 characters that is shorter than
\* content exactly when len(content) > max_length + 35
C20_TruncatedIsCutPlusMarker ==
    /\ (tc_pc = "returned" /\ Len(tc_content) <= tc_max_length) => tc_result = tc_content
    /\ Truncated =>
        /\ StartsWithCut
        /\ StrContains(MarkerText, tc_result)
        /\ tc_result = SubSeq(tc_content, 1, tc_max_length) \o TruncationMarker
        /\ Len(tc_result) = tc_max_length + Len(TruncationMarker)
        /\ Len(tc_result) < Len(tc_content)
             <=> Len(tc_content) > tc_max_length + Len(TruncationMarker)

\* a content cut to a positive length whose result is shorter than it
C20_CutAndShorter ==
    /\ Truncated
    /\ tc_max_length > 0
    /\ Len(tc_result) < Len(tc_content)

-----------------------------------------------------------------------------
(* the title of the WebPage entity *)

PageEntities == {i \in DOMAIN entities : entities[i].type = "WebPage"}
StoredPages(url) == MatchingNodes(graph_nodes, "WebPage", url)
TitleOrUrl(title, url) == IF title \in {NoneValue, EmptyStr} THEN url ELSE title

\* C21: the WebPage entity returned has the input title when it is not
\* empty and the input url when it is; after store_in_graph_db returned True
\* the page's node has the title given, or the url when the title was None
\* or empty
C21_TitleOrUrl ==
    /\ Returned =>
        /\ PageEntities # {}
        /\ \A i \in PageEntities :
               /\ entities[i].url = ex_url
               /\ entities[i].title = (IF ex_title = EmptyStr THEN ex_url ELSE ex_title)
    /\ gs_last.ok =>
        /\ StoredPages(gs_last.args[1]) # {}
        /\ \A i \in StoredPages(gs_last.args[1]) :
               graph_nodes[i].props[1] = TitleOrUrl(gs_last.args[2], gs_last.args[1])

\* a page was stored without a title: its node's title is its url
C21_StoredWithoutTitle ==
    /\ gs_last.ok
    /\ gs_last.args[2] = NoneValue
    /\ \E i \in StoredPages(gs_last.args[1]) : graph_nodes[i].props[1] = gs_last.args[1]

-----------------------------------------------------------------------------
(* the text of the ranked paragraphs *)

\* C22: the text of every ranked paragraph is the paragraph with its leading
\* and trailing white space removed, so none begins or ends with white space
C22_RankedTextsTrimmed ==
    ScoredOk =>
        \A i \in DOMAIN scored_paragraphs :
            /\ scored_paragraphs[i][2] = StrStrip(scored_paragraphs[i][2])
            /\ Head(scored_paragraphs[i][2]) \notin Whitespace
            /\ scored_paragraphs[i][2][Len(scored_paragraphs[i][2])] \notin Whitespace

-----------------------------------------------------------------------------
(* the relations as a set *)

RelationKey(r) == <<r.relation, r.from_type, r.from_id, r.to_type, r.to_id>>

\* C23: the relations returned never hold two relations with the same kind,
\* source and target, also when a link to another site occurs more than once
\* among the first 20 link matches
C23_RelationsDistinct ==
    Returned =>
        \A i, j \in DOMAIN relations :
            RelationKey(relations[i]) = RelationKey(relations[j]) => i = j

-----------------------------------------------------------------------------
(* store_in_graph_db: the order of the statements *)

\* C24: in a call of store_in_graph_db every entity statement runs before
\* every relation statement; when a BELONGS_TO or COVERS_TOPIC statement runs
\* both of its ends are in the store and the relationship is made; a LINKS_TO
\* statement makes the relationship, creating the target when it is absent;
\* after a call that returned True every relation of the extraction is an
\* edge of the store
C24_EntitiesBeforeRelations ==
    /\ gs_last.log.in_order
    /\ gs_last.log.unmerged = {}
    /\ gs_last.log.endless \subseteq {"LINKS_TO"}
    /\ gs_last.ok =>
           /\ EdgeKeysOf(gs_last.args) \subseteq GraphEdgeKeys
           /\ NodeKeysOf(gs_last.args) \subseteq GraphNodeKeys

\* a call returned True after statements of the three kinds of relation, one
\* of them a LINKS_TO whose target was not in the store
C24_StubCreated ==
    /\ gs_last.ok
    /\ gs_last.log.kinds = {"BELONGS_TO", "COVERS_TOPIC", "LINKS_TO"}
    /\ "LINKS_TO" \in gs_last.log.endless

-----------------------------------------------------------------------------
(* crawl_multiple_pages: one entry per url *)

EntryFor(i) == [url |-> i, body |-> IF results[i] = "success" THEN "content" ELSE "error"]
OneEntryPerUrl ==
    /\ Len(mp_entries) = mp_args.urls
    /\ \A k \in DOMAIN mp_entries : mp_entries[k] = EntryFor(k)
    /\ mp_header.urls = mp_args.urls
    /\ mp_header.successful + mp_header.failed = mp_args.urls
    /\ mp_header.failed = Cardinality(FailedFetches)

-----------------------------------------------------------------------------
(* get_crawler: one started crawler *)

Handed == {gc_got[c] : c \in Callers} \ {0}

\* C26: between two shutdowns at most one AsyncWebCrawler is constructed and
\* start() is called at most once, the callers that get a value get the same
\* instance, and no caller is handed an instance whose start() has not
\* completed, also after the start() of an earlier caller raised
C26_OneStartedCrawler ==
    /\ gc_epoch.made <= 1
    /\ gc_epoch.starts <= 1
    /\ Cardinality(Handed) <= 1
    /\ Handed \subseteq gc_started

\* between two shutdowns at most one AsyncWebCrawler is constructed, start()
\* is called at most once and the callers that get a value get that instance
C26_OneCrawler ==
    /\ gc_epoch.made <= 1
    /\ gc_epoch.starts <= 1
    /\ Cardinality(Handed) <= 1
    /\ Handed \subseteq {crawler}

-----------------------------------------------------------------------------
(* crawl_multiple_pages: termination *)

TaskWaits(i) == mp_pc = "gathering" /\ i \in DOMAIN task_pc /\ task_pc[i] = "waiting"

TaskHasPermit(i) == i \in DOMAIN task_pc /\ task_pc[i] \in {"fetching", "done"}

\* C27: crawl_multiple_pages eventually returns a string for every list of
\* urls and every max_concurrent, 0 and negative values included, when every
\* fetch returns or raises: every task waiting for a permit gets one, and
\* every permit taken has been given back when the tasks are gathered
C27_EventuallyReturns ==
    /\ (mp_pc = "starting") ~> (mp_pc = "done")
    /\ \A i \in 1..MaxUrls : TaskWaits(i) ~> TaskHasPermit(i)
    /\ [](mp_pc = "building" => semaphore = mp_limit)

\* the call returns when the semaphore has a permit or there is no url
C27_ReturnsWithPermits ==
    /\ (mp_pc = "starting" /\ (mp_limit # 0 \/ mp_args.urls = 0)) ~> (mp_pc = "done")
    /\ \A i \in 1..MaxUrls : (TaskWaits(i) /\ mp_limit # 0) ~> TaskHasPermit(i)
    /\ [](mp_pc = "building" => semaphore = mp_limit)

\* with no permit and a url the tasks wait for ever
C27_NoPermitNeverReturns ==
    [](mp_pc = "gathering" /\ mp_limit = 0 /\ mp_args.urls > 0 => [](mp_pc = "gathering"))

====
